---------------------------- MODULE Spec2Model ----------------------------
(***************************************************************************)
(* Braitenberg vehicle simulations (samplevehicle2.py, vehicle3.py,        *)
(* vehicle3-3vehicles.py, vehicle303.py, vehicle3second.py, vehicle4.py,   *)
(* vehicle4_comparison.py) as one state machine.  The variable scene names *)
(* the program that runs; every program is a pygame frame loop that first  *)
(* handles the pending events and then updates every vehicle.              *)
(*                                                                         *)
(* Floating point is modelled in fixed point:                              *)
(*   positions   in 1/PosScale pixel,                                      *)
(*   motors      in 1/MotorScale pixel per tick,                           *)
(*   intensities in 1/IntScale,                                            *)
(*   headings    in 1/HeadScale radian,                                    *)
(*   cos, sin, exp, normalised strengths in 1/TrigScale.                   *)
(***************************************************************************)
EXTENDS Integers, Sequences, FiniteSets, TLC

PosScale   == 10 ^ 1
MotorScale == 10 ^ 3
IntScale   == 10 ^ 1
HeadScale  == 10 ^ 5
TrigScale  == 10 ^ 3

----------------------------------------------------------------------------
(* Arithmetic                                                              *)

Abs(a) == IF a < 0 THEN -a ELSE a

Sgn(a) == IF a < 0 THEN -1 ELSE IF a > 0 THEN 1 ELSE 0

Max(a, b) == IF a >= b THEN a ELSE b

Min(a, b) == IF a <= b THEN a ELSE b

\* a / b rounded to the nearest integer, halves away from zero (b > 0), so
\* that RoundDiv(-a, b) = -RoundDiv(a, b)
RoundDiv(a, b) == Sgn(a) * ((2 * Abs(a) + b) \div (2 * b))

RECURSIVE SqrtIter(_, _)
SqrtIter(n, r) ==
    LET r2 == (r + n \div r) \div 2
    IN  IF r2 >= r THEN r ELSE SqrtIter(n, r2)

\* math.sqrt / math.hypot on a non-negative integer, rounded to nearest
ISqrt(n) ==
    IF n = 0 THEN 0
    ELSE LET r == SqrtIter(n, n)
         IN  IF n - r * r > r THEN r + 1 ELSE r

\* math.pi in milliradians
PiMilli == 3142

HalfPiMilli == PiMilli \div 2

TwoPiMilli == 2 * PiMilli - 1

\* angle in milliradians reduced to (-pi, pi]
ReduceAngle(a) ==
    LET m == a % TwoPiMilli
    IN  IF m > PiMilli THEN m - TwoPiMilli ELSE m

\* Taylor polynomials on [0, pi/2], argument and result in 1/TrigScale
SinPoly(x) ==
    LET x2 == (x * x) \div TrigScale
        t3 == (x * x2) \div 6000
        t5 == (t3 * x2) \div 20000
        t7 == (t5 * x2) \div 42000
    IN  x - t3 + t5 - t7

CosPoly(x) ==
    LET x2 == (x * x) \div TrigScale
        c2 == x2 \div 2
        c4 == (c2 * x2) \div 12000
        c6 == (c4 * x2) \div 30000
        c8 == (c6 * x2) \div 56000
    IN  TrigScale - c2 + c4 - c6 + c8

\* math.sin of an angle in milliradians, in 1/TrigScale
Sin(a) ==
    LET r == ReduceAngle(a)
        x == Abs(r)
        y == IF x > HalfPiMilli THEN PiMilli - x ELSE x
    IN  Sgn(r) * Min(TrigScale, SinPoly(y))

\* math.cos of an angle in milliradians, in 1/TrigScale
Cos(a) ==
    LET x == Abs(ReduceAngle(a))
    IN  IF x > HalfPiMilli
        THEN -Min(TrigScale, Max(0, CosPoly(PiMilli - x)))
        ELSE Min(TrigScale, Max(0, CosPoly(x)))

\* exp(-n) for whole n, in 1/TrigScale
ExpNegWhole(n) ==
    CASE n = 0 -> 1000
      [] n = 1 -> 368
      [] n = 2 -> 135
      [] n = 3 -> 50
      [] n = 4 -> 18
      [] n = 5 -> 7
      [] n = 6 -> 2
      [] OTHER -> 0

\* math.exp(-t) for t >= 0 in 1/TrigScale, result in 1/TrigScale:
\* exp(-t) = exp(-floor t) * exp(-frac t), the latter by its Taylor polynomial
ExpNeg(t) ==
    LET n  == t \div TrigScale
        f  == t % TrigScale
        f2 == (f * f) \div 2000
        f3 == (f2 * f) \div 3000
        f4 == (f3 * f) \div 4000
        f5 == (f4 * f) \div 5000
        ef == TrigScale - f + f2 - f3 + f4 - f5
    IN  RoundDiv(ExpNegWhole(n) * ef, TrigScale)

\* x ** 1.8 and x ** 2.2 for x in [0, 1] (1/TrigScale), tabulated at tenths
PowTable(curve) ==
    IF curve = 18
    THEN << 0, 16, 55, 115, 192, 287, 399, 526, 669, 827, 1000 >>
    ELSE << 0, 6, 29, 71, 133, 218, 325, 456, 612, 793, 1000 >>

\* strength ** curve, curve in tenths (10 = 1.0, 18 = 1.8, 22 = 2.2); the
\* fractional powers are interpolated linearly between the tabulated points
Pow(x, curve) ==
    IF curve = 10 THEN x
    ELSE IF x >= TrigScale THEN TrigScale
    ELSE LET k  == x \div 100
             lo == PowTable(curve)[k + 1]
             hi == PowTable(curve)[k + 2]
         IN  lo + ((hi - lo) * (x % 100)) \div 100

----------------------------------------------------------------------------
(* Programs, window sizes and vehicle classes                              *)

\* "zones" is vehicle3-3vehicles.py, "comparison" is vehicle4_comparison.py
Scenes == { "samplevehicle2", "vehicle3", "zones", "vehicle303",
            "vehicle3second", "vehicle4", "comparison" }

\* WIDTH, HEIGHT of each program, in pixels
Width(sc) ==
    CASE sc = "zones" -> 1000
      [] sc = "comparison" -> 1200
      [] OTHER -> 800

Height(sc) ==
    CASE sc \in {"zones", "comparison"} -> 700
      [] OTHER -> 600

\* Vehicle classes.  "2a".."2c": VehicleTwo by config; "3a","3b": VehicleThree
\* of vehicle3.py by config; "z3a".."z3c": the classes of vehicle3-3vehicles.py;
\* "303a".."303c": the classes of vehicle303.py; "s3c": VehicleThreeC of
\* vehicle3second.py; "4a","4b": VehicleFourA/B; "gauss","linear": the
\* classes of vehicle4_comparison.py.
ClassesOf(sc) ==
    CASE sc = "samplevehicle2" -> {"2a", "2b", "2c"}
      [] sc = "vehicle3" -> {"3a", "3b"}
      [] sc = "zones" -> {"z3a", "z3b", "z3c"}
      [] sc = "vehicle303" -> {"303a", "303b", "303c"}
      [] sc = "vehicle3second" -> {"s3c"}
      [] sc = "vehicle4" -> {"4a", "4b"}
      [] sc = "comparison" -> {"gauss", "linear"}

SceneOf(cls) == CHOOSE sc \in Scenes : cls \in ClassesOf(sc)

\* self.sensor_dist, in position units
SensorDist(cls) ==
    CASE cls \in {"2a", "2b", "2c", "3a", "3b"} -> 300
      [] cls \in {"z3a", "z3b", "z3c", "gauss", "linear"} -> 308
      [] cls \in {"303a", "303b", "303c", "4a", "4b"} -> 375
      [] cls = "s3c" -> 340

\* the magnitude of the sensors' angular offset, in milliradians
SensorAngle(cls) ==
    CASE cls \in {"2a", "2b", "2c", "3a", "3b"} -> 500
      [] cls \in {"z3a", "z3b", "z3c", "gauss", "linear"} -> 600
      [] cls \in {"303a", "303b", "303c", "4a", "4b"} -> 700
      [] cls = "s3c" -> 850

\* the offset of the sensor the class calls its left sensor: every class
\* puts it at -sensor_angle, except vehicle3second.py, which puts it at
\* +sensor_angle
LeftSensorAngle(cls) ==
    IF cls = "s3c" THEN SensorAngle(cls) ELSE -SensorAngle(cls)

RightSensorAngle(cls) == -LeftSensorAngle(cls)

\* self.base_speed, in motor units; VehicleTwo has no baseline term
BaseSpeed(cls) ==
    CASE cls \in {"2a", "2b", "2c"} -> 0
      [] cls \in {"3a", "3b", "303a", "303b"} -> 2000
      [] cls \in {"z3a", "z3b", "z3c"} -> 1800
      [] cls = "303c" -> 1500
      [] cls = "s3c" -> 1400
      [] cls = "4a" -> 1000
      [] cls = "4b" -> 800
      [] cls \in {"gauss", "linear"} -> 1200

\* the divisor of the turning rate ("wheelbase"), as the reduced fraction
\* (HeadScale / MotorScale) / wheelbase: radius*2 = 40, 22*1.5 = 33,
\* 25*1.5 = 37.5
TurnNum(cls) ==
    CASE cls \in {"2a", "2b", "2c", "3a", "3b", "s3c"} -> 5
      [] cls \in {"z3a", "z3b", "z3c", "gauss", "linear"} -> 100
      [] OTHER -> 8

TurnDen(cls) ==
    CASE cls \in {"2a", "2b", "2c", "3a", "3b", "s3c"} -> 2
      [] cls \in {"z3a", "z3b", "z3c", "gauss", "linear"} -> 33
      [] OTHER -> 3

----------------------------------------------------------------------------
(* Sensors and the stimulus field.  A vehicle is a record                  *)
(*   [cls, x, y, heading, left_motor, right_motor, sense, trail];          *)
(* a source is a record [x, y, type] with x, y in whole pixels.            *)

\* heading in milliradians, the argument of math.cos / math.sin
HeadingMilli(v) == RoundDiv(v.heading, HeadScale \div TrigScale)

\* _sensor_position(angle): the local offset rotated by the heading
SensorPosition(v, angle) ==
    LET local_x == RoundDiv(Cos(angle) * SensorDist(v.cls), TrigScale)
        local_y == RoundDiv(Sin(angle) * SensorDist(v.cls), TrigScale)
        cos_h   == Cos(HeadingMilli(v))
        sin_h   == Sin(HeadingMilli(v))
    IN  << v.x + RoundDiv(cos_h * local_x - sin_h * local_y, TrigScale),
           v.y + RoundDiv(sin_h * local_x + cos_h * local_y, TrigScale) >>

\* vehicle3second.py get_sensor_pos(angle_offset)
GetSensorPos(v, angle_offset) ==
    LET angle == HeadingMilli(v) + angle_offset
    IN  << v.x + RoundDiv(Cos(angle) * SensorDist(v.cls), TrigScale),
           v.y + RoundDiv(Sin(angle) * SensorDist(v.cls), TrigScale) >>

LeftSensorPos(v) ==
    IF v.cls = "s3c" THEN GetSensorPos(v, LeftSensorAngle(v.cls))
    ELSE SensorPosition(v, LeftSensorAngle(v.cls))

RightSensorPos(v) ==
    IF v.cls = "s3c" THEN GetSensorPos(v, RightSensorAngle(v.cls))
    ELSE SensorPosition(v, RightSensorAngle(v.cls))

\* dx*dx + dy*dy between a point (position units) and a source (pixels)
DistSq(p, src) ==
    LET dx == src.x * PosScale - p[1]
        dy == src.y * PosScale - p[2]
    IN  dx * dx + dy * dy

\* VehicleTwo._intensity_one and VehicleThree._intensity_one (vehicle3.py):
\* 1000.0 below distance 0.1, else 50 + 100 / (distance * 0.1)
LightIntensityOne(p, src) ==
    LET distance == ISqrt(DistSq(p, src))
    IN  IF distance < 1 THEN 1000 * IntScale
        ELSE 50 * IntScale + (1000 * IntScale * PosScale) \div distance

\* the numerator of the inverse-square law
InvSquareK(cls) ==
    IF cls \in {"z3a", "z3b", "z3c", "gauss", "linear"} THEN 40000 ELSE 50000

\* the square of the distance floor, in position units squared:
\* 1.0 in vehicle3-3vehicles.py, vehicle4.py and vehicle4_comparison.py,
\* 0.5 in vehicle303.py
FloorSq(cls) ==
    IF cls \in {"303a", "303b", "303c"} THEN 25 ELSE 100

\* _intensity_from_source / _intensity_one of the inverse-square classes
SquareIntensityOne(cls, p, src) ==
    (InvSquareK(cls) * PosScale * PosScale * IntScale)
        \div Max(DistSq(p, src), FloorSq(cls))

IntensityOne(cls, p, src) ==
    IF cls \in {"2a", "2b", "2c", "3a", "3b"}
    THEN LightIntensityOne(p, src)
    ELSE SquareIntensityOne(cls, p, src)

\* a channel that counts the sources of every type
MatchesAll(src, ty) == TRUE

\* whether a channel tuned to type ty counts the source; "ANY" is the
\* absent filter (source_type is None, or no filter parameter at all)
Matches(src, ty) == ty = "ANY" \/ src.type = ty

RECURSIVE SumIntensity(_, _, _, _)
SumIntensity(cls, p, sources, ty) ==
    IF sources = << >> THEN 0
    ELSE (IF Matches(Head(sources), ty)
          THEN IntensityOne(cls, p, Head(sources)) ELSE 0)
         + SumIntensity(cls, p, Tail(sources), ty)

\* a query that forgets its filter
IntensityAtUnfiltered(cls, p, sources, ty) ==
    SumIntensity(cls, p, sources, "ANY")

\* _intensity_at / _total_intensity: the sum over the matching sources
IntensityAt(cls, p, sources, ty) == SumIntensity(cls, p, sources, ty)

\* SENSOR_SETTINGS of vehicle3second.py: range in position units, curve in
\* tenths
SensorRange(ty) ==
    CASE ty = "light" -> 2600
      [] ty = "temp" -> 2200
      [] ty = "oxygen" -> 2800
      [] ty = "organic" -> 1500

SensorCurve(ty) ==
    CASE ty \in {"light", "temp"} -> 10
      [] ty = "oxygen" -> 18
      [] ty = "organic" -> 22

\* the strength one source adds in _sensor_strengths
StrengthOne(p, src, ty) ==
    LET dist == ISqrt(DistSq(p, src))
    IN  IF src.type # ty THEN 0
        ELSE IF dist >= SensorRange(ty) \/ dist = 0 THEN 0
        ELSE Pow(RoundDiv((SensorRange(ty) - dist) * TrigScale,
                          SensorRange(ty)), SensorCurve(ty))

RECURSIVE SumStrength(_, _, _)
SumStrength(p, sources, ty) ==
    IF sources = << >> THEN 0
    ELSE StrengthOne(p, Head(sources), ty) + SumStrength(p, Tail(sources), ty)

\* vehicle3second.py _sensor_strengths: the sum capped to 1.0
SensorStrengths(p, sources, ty) == Min(SumStrength(p, sources, ty), TrigScale)

----------------------------------------------------------------------------
(* Response laws                                                           *)

\* optimal_intensity and curve_width of VehicleFourA by source type, and of
\* VehicleGaussian ("ANY"), in intensity units
OptimalIntensity(ty) ==
    CASE ty = "LIGHT" -> 150 * IntScale
      [] ty = "SOUND" -> 200 * IntScale
      [] ty = "SMELL" -> 100 * IntScale
      [] ty = "HEAT" -> 80 * IntScale
      [] ty = "ANY" -> 120 * IntScale

CurveWidth(ty) ==
    CASE ty = "LIGHT" -> 100 * IntScale
      [] ty = "SOUND" -> 120 * IntScale
      [] ty = "SMELL" -> 80 * IntScale
      [] ty = "HEAT" -> 60 * IntScale
      [] ty = "ANY" -> 80 * IntScale

\* whether math.exp returns exactly 0.0 for the exponent of the bell curve:
\* it does below about -745, which 40 widths from the optimum (-800) is
BellCurveUnderflows(intensity, optimal, width) ==
    Abs(intensity - optimal) >= 40 * width

\* a response that stays at 1.0 above the optimum
BellCurveResponseOneSided(intensity, optimal, width) ==
    IF intensity >= optimal THEN TrigScale
    ELSE LET q == RoundDiv((optimal - intensity) * TrigScale, width)
         IN  ExpNeg((q * q) \div (2 * TrigScale))

\* _bell_curve_response / _gaussian_response:
\* exp(-(intensity - optimal)^2 / (2 * width^2)).  Beyond 40 widths the
\* exponent is below -800 and math.exp returns 0.0.
BellCurveResponse(intensity, optimal, width) ==
    LET diff == Abs(intensity - optimal)
    IN  IF BellCurveUnderflows(intensity, optimal, width) THEN 0
        ELSE LET q == RoundDiv(diff * TrigScale, width)
             IN  ExpNeg((q * q) \div (2 * TrigScale))

\* threshold, min_activation (motor units) and slope (motor units per unit
\* of intensity) of VehicleFourB by source type
Threshold(ty) ==
    CASE ty = "LIGHT" -> 50 * IntScale
      [] ty = "SOUND" -> 80 * IntScale
      [] ty = "SMELL" -> 40 * IntScale
      [] ty = "HEAT" -> 60 * IntScale

MinActivation(ty) ==
    CASE ty = "LIGHT" -> 1500
      [] ty = "SOUND" -> 1200
      [] ty = "SMELL" -> 1000
      [] ty = "HEAT" -> 1800

Slope(ty) ==
    CASE ty = "LIGHT" -> 15
      [] ty = "SOUND" -> 12
      [] ty = "SMELL" -> 10
      [] ty = "HEAT" -> 20

\* a response that is still 0 at the threshold itself
ThresholdResponseAbove(intensity, threshold, min_activation, slope) ==
    IF intensity <= threshold THEN 0
    ELSE min_activation + RoundDiv((intensity - threshold) * slope, IntScale)

\* VehicleFourB._threshold_response
ThresholdResponse(intensity, threshold, min_activation, slope) ==
    IF intensity < threshold THEN 0
    ELSE min_activation + RoundDiv((intensity - threshold) * slope, IntScale)

\* VehicleLinear._linear_response: min(1.0, intensity * 0.02 * 1.0)
LinearResponse(intensity) ==
    Min(TrigScale, (intensity * 20) \div IntScale)

\* response * self.max_motor_boost (2.0 in vehicle4.py, 2.5 in
\* vehicle4_comparison.py), in motor units
Boost(cls, response) ==
    IF cls = "4a" THEN RoundDiv(response * 2000, TrigScale)
    ELSE RoundDiv(response * 2500, TrigScale)

----------------------------------------------------------------------------
(* Wiring: from sensor readings to the motor pair                          *)

\* the source types a class has a channel for, in the order the update
\* handles them; "ANY" is a channel that sums every source it is given
Channels(cls) ==
    CASE cls \in {"z3a", "z3b"} -> << "GENERIC" >>
      [] cls \in {"z3c", "303c"} ->
            << "TEMPERATURE", "LIGHT", "ORGANIC", "OXYGEN" >>
      [] cls = "s3c" -> << "temp", "light", "oxygen", "organic" >>
      [] cls \in {"4a", "4b"} -> << "LIGHT", "SOUND", "SMELL", "HEAT" >>
      [] OTHER -> << "ANY" >>

\* the pair << left reading, right reading >> of one channel: intensities,
\* or normalised strengths in vehicle3second.py
Reading(v, sources, ty) ==
    IF v.cls = "s3c"
    THEN << SensorStrengths(LeftSensorPos(v), sources, ty),
            SensorStrengths(RightSensorPos(v), sources, ty) >>
    ELSE << IntensityAt(v.cls, LeftSensorPos(v), sources, ty),
            IntensityAt(v.cls, RightSensorPos(v), sources, ty) >>

\* every channel's reading, in channel order
Sense(v, sources) ==
    [k \in DOMAIN Channels(v.cls) |-> Reading(v, sources, Channels(v.cls)[k])]

\* whether the channel is excitatory, and whether it is crossed
Excitatory(cls, ty) ==
    CASE cls \in {"2a", "2b", "2c", "4a", "4b", "gauss", "linear"} -> TRUE
      [] cls \in {"3a", "3b", "z3a", "z3b", "303a", "303b"} -> FALSE
      [] cls \in {"z3c", "303c"} -> ty \in {"TEMPERATURE", "LIGHT"}
      [] cls = "s3c" -> ty \in {"temp", "light"}

Crossed(cls, ty) ==
    CASE cls \in {"2a", "3a", "z3a", "303a"} -> FALSE
      [] cls \in {"2b", "3b", "z3b", "303b", "gauss", "linear"} -> TRUE
      [] cls \in {"z3c", "303c"} -> ty \in {"LIGHT", "OXYGEN"}
      [] cls = "s3c" -> ty \in {"light", "oxygen"}
      [] cls \in {"4a", "4b"} -> ty \in {"LIGHT", "SMELL"}
      [] cls = "2c" -> FALSE

\* the scale of a linear channel in hundredths: self.scale,
\* inhibitory_scale / INHIBITORY_SCALE, excitatory_scale / EXCITATORY_SCALE
ScalePercent(cls, ty) ==
    CASE cls \in {"2a", "2b", "2c", "3a", "3b"} -> 1
      [] cls \in {"z3a", "z3b", "303a", "303b"} -> 12
      [] cls = "z3c" -> IF Excitatory(cls, ty) THEN 8 ELSE 12
      [] cls = "303c" -> IF Excitatory(cls, ty) THEN 10 ELSE 15

\* intensity * scale, in motor units
Scaled(cls, ty, intensity) ==
    intensity * ScalePercent(cls, ty) * (MotorScale \div (100 * IntScale))

\* WEIGHTS of vehicle3second.py, in motor units
Weight(ty) ==
    CASE ty = "temp" -> 2400
      [] ty = "light" -> 3100
      [] ty = "oxygen" -> 1400
      [] ty = "organic" -> 2600

\* accumulators that start from the motor values of the previous update
StartMotorsCarried(v) ==
    << BaseSpeed(v.cls) + v.left_motor, BaseSpeed(v.cls) + v.right_motor >>

\* left_motor = self.base_speed; right_motor = self.base_speed
StartMotors(v) == << BaseSpeed(v.cls), BaseSpeed(v.cls) >>

\* a channel loop whose uncrossed excitatory branch feeds the left motor only
ThreeCStepOneSided(cls, ty, m, rd) ==
    LET left_intensity  == Scaled(cls, ty, rd[1])
        right_intensity == Scaled(cls, ty, rd[2])
    IN  IF Excitatory(cls, ty)
        THEN IF ~Crossed(cls, ty)
             THEN << m[1] + left_intensity, m[2] >>
             ELSE << m[1] + right_intensity, m[2] + left_intensity >>
        ELSE IF ~Crossed(cls, ty)
             THEN << m[1] - left_intensity, m[2] - right_intensity >>
             ELSE << m[1] - right_intensity, m[2] - left_intensity >>

\* a channel loop that wires every channel uncrossed
ThreeCStepUncrossed(cls, ty, m, rd) ==
    LET left_intensity  == Scaled(cls, ty, rd[1])
        right_intensity == Scaled(cls, ty, rd[2])
    IN  IF Excitatory(cls, ty)
        THEN << m[1] + left_intensity, m[2] + right_intensity >>
        ELSE << m[1] - left_intensity, m[2] - right_intensity >>

\* one pass of the channel loop of VehicleThreeC.update (vehicle303.py and
\* vehicle3-3vehicles.py); m is the pair of accumulators, rd the reading
ThreeCStep(cls, ty, m, rd) ==
    LET left_intensity  == Scaled(cls, ty, rd[1])
        right_intensity == Scaled(cls, ty, rd[2])
    IN  IF Excitatory(cls, ty)
        THEN IF ~Crossed(cls, ty)
             THEN << m[1] + left_intensity, m[2] + right_intensity >>
             ELSE << m[1] + right_intensity, m[2] + left_intensity >>
        ELSE IF ~Crossed(cls, ty)
             THEN << m[1] - left_intensity, m[2] - right_intensity >>
             ELSE << m[1] - right_intensity, m[2] - left_intensity >>

\* one of the four blocks of vehicle3second.py VehicleThreeC.update
SecondStep(ty, m, rd) ==
    LET l == RoundDiv(rd[1] * Weight(ty), TrigScale)
        r == RoundDiv(rd[2] * Weight(ty), TrigScale)
    IN  CASE ty = "temp"    -> << m[1] + l, m[2] + r >>
          [] ty = "light"   -> << m[1] + r, m[2] + l >>
          [] ty = "oxygen"  -> << m[1] - r, m[2] - l >>
          [] ty = "organic" -> << m[1] - l, m[2] - r >>

\* one pass of the loop of VehicleFourA.update; a type whose two
\* intensities are both below 0.1 is skipped
FourAStep(ty, m, rd) ==
    IF rd[1] < IntScale \div 10 /\ rd[2] < IntScale \div 10 THEN m
    ELSE LET left_boost  == Boost("4a", BellCurveResponse(rd[1],
                                OptimalIntensity(ty), CurveWidth(ty)))
             right_boost == Boost("4a", BellCurveResponse(rd[2],
                                OptimalIntensity(ty), CurveWidth(ty)))
         IN  IF ~Crossed("4a", ty)
             THEN << m[1] + left_boost, m[2] + right_boost >>
             ELSE << m[1] + right_boost, m[2] + left_boost >>

\* one pass of the loop of VehicleFourB.update
FourBStep(ty, m, rd) ==
    LET left_response  == ThresholdResponse(rd[1], Threshold(ty),
                              MinActivation(ty), Slope(ty))
        right_response == ThresholdResponse(rd[2], Threshold(ty),
                              MinActivation(ty), Slope(ty))
    IN  IF ~Crossed("4b", ty)
        THEN << m[1] + left_response, m[2] + right_response >>
        ELSE << m[1] + right_response, m[2] + left_response >>

ChannelStep(cls, ty, m, rd) ==
    CASE cls \in {"z3c", "303c"} -> ThreeCStep(cls, ty, m, rd)
      [] cls = "s3c" -> SecondStep(ty, m, rd)
      [] cls = "4a" -> FourAStep(ty, m, rd)
      [] cls = "4b" -> FourBStep(ty, m, rd)

\* the channels handled one after the other, each adding to the accumulators
RECURSIVE RunChannels(_, _, _, _)
RunChannels(v, sources, tys, m) ==
    IF tys = << >> THEN m
    ELSE RunChannels(v, sources, Tail(tys),
             ChannelStep(v.cls, Head(tys), m, Reading(v, sources, Head(tys))))

\* no clamp at all
ClampMotorNone(cls, motor) == motor

\* the clamps without the speed ceiling of vehicle3second.py
ClampMotorNoCeiling(cls, motor) ==
    CASE cls \in {"2a", "2b", "2c"} -> motor
      [] cls \in {"3a", "3b"} -> Max(100, motor)
      [] cls = "s3c" -> Max(50, motor)
      [] OTHER -> Max(0, motor)

\* the clamp of one motor after the channels: max(0.0, motor);
\* max(min_speed, min(motor, max_speed)) in vehicle3second.py;
\* max(0.1, motor) in vehicle3.py; none in samplevehicle2.py
ClampMotor(cls, motor) ==
    CASE cls \in {"2a", "2b", "2c"} -> motor
      [] cls \in {"3a", "3b"} -> Max(100, motor)
      [] cls = "s3c" -> Max(50, Min(motor, 6000))
      [] OTHER -> Max(0, motor)

\* every config wired like 'a', each sensor to the motor of its side
VehicleTwoMotorsStraight(v, lights) ==
    LET rd == Reading(v, lights, "ANY")
    IN  << Scaled(v.cls, "ANY", rd[1]), Scaled(v.cls, "ANY", rd[2]) >>

\* VehicleTwo.update, lines 65-74: the motor pair by config
VehicleTwoMotors(v, lights) ==
    LET rd == Reading(v, lights, "ANY")
        left_intensity  == rd[1]
        right_intensity == rd[2]
        avg_intensity   == (left_intensity + right_intensity) \div 2
    IN  CASE v.cls = "2a" -> << Scaled(v.cls, "ANY", left_intensity),
                               Scaled(v.cls, "ANY", right_intensity) >>
          [] v.cls = "2b" -> << Scaled(v.cls, "ANY", right_intensity),
                               Scaled(v.cls, "ANY", left_intensity) >>
          [] v.cls = "2c" -> << Scaled(v.cls, "ANY", avg_intensity),
                               Scaled(v.cls, "ANY", avg_intensity) >>

\* the single inhibitory channel of VehicleThree (vehicle3.py), of
\* VehicleThreeA / VehicleThreeB (vehicle303.py, vehicle3-3vehicles.py)
InhibitoryMotors(v, sources) ==
    LET ty == Channels(v.cls)[1]
        rd == Reading(v, sources, ty)
        left_intensity  == rd[1]
        right_intensity == rd[2]
    IN  IF ~Crossed(v.cls, ty)
        THEN << BaseSpeed(v.cls) - Scaled(v.cls, ty, left_intensity),
                BaseSpeed(v.cls) - Scaled(v.cls, ty, right_intensity) >>
        ELSE << BaseSpeed(v.cls) - Scaled(v.cls, ty, right_intensity),
                BaseSpeed(v.cls) - Scaled(v.cls, ty, left_intensity) >>

\* VehicleGaussian.update / VehicleLinear.update, lines 134-149 / 267-282:
\* one crossed excitatory channel
ComparisonMotors(v, sources) ==
    LET rd == Reading(v, sources, "ANY")
        left_response ==
            IF v.cls = "gauss"
            THEN Boost(v.cls, BellCurveResponse(rd[1],
                     OptimalIntensity("ANY"), CurveWidth("ANY")))
            ELSE Boost(v.cls, LinearResponse(rd[1]))
        right_response ==
            IF v.cls = "gauss"
            THEN Boost(v.cls, BellCurveResponse(rd[2],
                     OptimalIntensity("ANY"), CurveWidth("ANY")))
            ELSE Boost(v.cls, LinearResponse(rd[2]))
    IN  << StartMotors(v)[1] + right_response,
           StartMotors(v)[2] + left_response >>

\* the motor pair before the clamp
RawMotors(v, sources) ==
    CASE v.cls \in {"2a", "2b", "2c"} -> VehicleTwoMotors(v, sources)
      [] v.cls \in {"3a", "3b", "z3a", "z3b", "303a", "303b"} ->
            InhibitoryMotors(v, sources)
      [] v.cls \in {"gauss", "linear"} -> ComparisonMotors(v, sources)
      [] OTHER -> RunChannels(v, sources, Channels(v.cls), StartMotors(v))

\* the motor pair used for the kinematics
MotorPair(v, sources) ==
    LET m == RawMotors(v, sources)
    IN  << ClampMotor(v.cls, m[1]), ClampMotor(v.cls, m[2]) >>

----------------------------------------------------------------------------
(* Differential drive                                                      *)

\* turning_rate / turn_rate / v_turn, in heading units: (right - left) /
\* (radius * 2) in samplevehicle2.py and vehicle3.py, (left - right) /
\* wheelbase everywhere else
TurningRate(cls, left_motor, right_motor) ==
    IF cls \in {"2a", "2b", "2c", "3a", "3b"}
    THEN RoundDiv((right_motor - left_motor) * TurnNum(cls), TurnDen(cls))
    ELSE RoundDiv((left_motor - right_motor) * TurnNum(cls), TurnDen(cls))

\* forward_speed = (left_motor + right_motor) / 2, in position units
ForwardSpeed(left_motor, right_motor) ==
    RoundDiv(left_motor + right_motor, 2 * (MotorScale \div PosScale))

\* stopping at the edges instead of wrapping around
ConfineClamped(cls, x, y) ==
    << Max(0, Min(Width(SceneOf(cls)) * PosScale - 1, x)),
       Max(0, Min(Height(SceneOf(cls)) * PosScale - 1, y)) >>

\* wrapping around for every class, the comparison vehicles included
ConfineWrapping(cls, x, y) ==
    << x % (Width(SceneOf(cls)) * PosScale),
       y % (Height(SceneOf(cls)) * PosScale) >>

\* the position after the integration step: x %= WIDTH, y %= HEIGHT; the
\* comparison vehicles are clamped into their half of the window instead
Confine(cls, x, y) ==
    LET W == Width(SceneOf(cls))
        H == Height(SceneOf(cls))
    IN  CASE cls = "gauss" ->
               << Max(20 * PosScale, Min((W \div 2 - 30) * PosScale, x)),
                  Max(180 * PosScale, Min((H - 20) * PosScale, y)) >>
          [] cls = "linear" ->
               << Max((W \div 2 + 30) * PosScale, Min((W - 20) * PosScale, x)),
                  Max(180 * PosScale, Min((H - 20) * PosScale, y)) >>
          [] OTHER -> << x % (W * PosScale), y % (H * PosScale) >>

\* the position before it is wrapped or clamped
Advance(v, heading, forward_speed) ==
    LET h == RoundDiv(heading, HeadScale \div TrigScale)
    IN  << v.x + RoundDiv(forward_speed * Cos(h), TrigScale),
           v.y + RoundDiv(forward_speed * Sin(h), TrigScale) >>

\* heading += turning_rate; x += forward * cos(heading); y += forward *
\* sin(heading); wrap; the motor pair is kept for the display
Move(v, m) ==
    LET heading == v.heading + TurningRate(v.cls, m[1], m[2])
        raw     == Advance(v, heading, ForwardSpeed(m[1], m[2]))
        pos     == Confine(v.cls, raw[1], raw[2])
    IN  [v EXCEPT !.heading = heading, !.x = pos[1], !.y = pos[2],
                  !.left_motor = m[1], !.right_motor = m[2]]

\* self.max_trail_length
MaxTrailLength == 200

\* a full trail that refuses the new position
UpdateTrailKeepingOldest(v) ==
    IF v.cls \notin {"gauss", "linear"} THEN v
    ELSE IF Len(v.trail) >= MaxTrailLength THEN v
         ELSE [v EXCEPT !.trail = Append(v.trail, << v.x, v.y >>)]

\* self.trail.append((self.x, self.y)); pop(0) beyond max_trail_length;
\* only the comparison vehicles keep a trail
UpdateTrail(v) ==
    IF v.cls \notin {"gauss", "linear"} THEN v
    ELSE LET t == Append(v.trail, << v.x, v.y >>)
         IN  [v EXCEPT !.trail = IF Len(t) > MaxTrailLength THEN Tail(t) ELSE t]

\* update(sources) of every vehicle class
Update(v, sources) ==
    UpdateTrail([Move(v, MotorPair(v, sources))
                    EXCEPT !.sense = Sense(v, sources)])

\* a vehicle as its constructor leaves it; x, y in pixels
NewVehicle(cls, x, y, heading) ==
    [cls |-> cls, x |-> x * PosScale, y |-> y * PosScale, heading |-> heading,
     left_motor |-> 0, right_motor |-> 0,
     sense |-> [k \in DOMAIN Channels(cls) |-> << 0, 0 >>],
     trail |-> << >>]

----------------------------------------------------------------------------
(* The programs                                                            *)

VARIABLES
    scene,                \* the program that runs
    sources,              \* lights / sources (sources_left in the comparison)
    sources_right,        \* sources_right of the comparison, else << >>
    vehicles,             \* the vehicles, in update order
    current_source_type,  \* the type the next click places
    current_vehicle_type, \* vehicle4.py: '4a' or '4b'
    frames,               \* updates done so far
    event,                \* the last thing the frame loop did
    pending,              \* pygame's event queue: input not yet fetched
    batch,                \* the events pygame.event.get() returned, not yet
                          \* handled by the for loop
    pc,                   \* where the frame is: "get", "events" or "update"
    seen,                 \* the source lists each vehicle updated in this
                          \* frame was updated with
    probe,                \* a point of the field and an intensity, for the
                          \* sensing and response functions called alone
    reading               \* what the functions returned for the probe

\* the position inside a frame, used by the statement-level frame loop
frame_vars == << pending, batch, pc, seen >>

\* the arguments and results of the functions called alone
probe_vars == << probe, reading >>

vars == << scene, sources, sources_right, vehicles, current_source_type,
           current_vehicle_type, frames, event, pending, batch, pc, seen,
           probe, reading >>

\* a frame about to fetch its events
FrameStart ==
    /\ pending = << >>
    /\ batch = << >>
    /\ pc = "get"
    /\ seen = << >>

NoReading ==
    [measured |-> FALSE, responded |-> FALSE, intensity |-> << >>,
     response |-> 0, positive |-> FALSE]

\* no function is called alone
NoProbe ==
    /\ probe = [cls |-> "none", point |-> << 0, 0 >>, ty |-> "none",
                intensity |-> 0]
    /\ reading = NoReading

\* most sources a list holds, and most updates, in the model
MaxSources == 1

MaxFrames == 2

\* math.pi / 2, math.pi and 0.5 in heading units
HeadingHalfPi == 157080

HeadingPi == 314159

HeadingHalf == 50000

ZoneWidth == Width("zones") \div 3

\* the vehicles each program constructs (create_vehicles, create_vehicle,
\* Simulation.reset, main)
CreateVehicles(sc, vehicle_type) ==
    CASE sc = "samplevehicle2" ->
            << NewVehicle("2a", 800 \div 2 - 200, 600 \div 2 - 100, 0),
               NewVehicle("2b", 800 \div 2 - 200, 600 \div 2, HeadingHalfPi),
               NewVehicle("2c", 800 \div 2 - 200, 600 \div 2 + 100, HeadingPi) >>
      [] sc = "vehicle3" ->
            << NewVehicle("3a", 800 \div 2 - 200, 600 \div 2 - 100, 0),
               NewVehicle("3b", 800 \div 2 - 200, 600 \div 2 + 100, HeadingHalfPi) >>
      [] sc = "zones" ->
            << NewVehicle("z3a", ZoneWidth \div 2, 700 \div 2, 0),
               NewVehicle("z3b", ZoneWidth + ZoneWidth \div 2, 700 \div 2, 0),
               NewVehicle("z3c", 2 * ZoneWidth + ZoneWidth \div 2, 700 \div 2, 0) >>
      [] sc = "vehicle303" ->
            << NewVehicle("303a", 200, 600 \div 2, 0),
               NewVehicle("303b", 800 \div 2, 600 \div 2, 0),
               NewVehicle("303c", 600, 600 \div 2, 0) >>
      [] sc = "vehicle3second" ->
            << NewVehicle("s3c", 800 \div 2, 600 \div 2, 0) >>
      [] sc = "vehicle4" ->
            << NewVehicle(vehicle_type, 800 \div 2, 600 \div 2, 0) >>
      [] sc = "comparison" ->
            << NewVehicle("gauss", 1200 \div 4 - 100, 700 \div 2 - 50, HeadingHalf),
               NewVehicle("linear", (3 * 1200) \div 4 - 100, 700 \div 2 - 50,
                          HeadingHalf) >>

Source(x, y, ty) == [x |-> x, y |-> y, type |-> ty]

\* the sources each program starts with (and the comparison resets to)
InitialSources(sc) ==
    CASE sc \in {"samplevehicle2", "vehicle3"} ->
            << Source(800 \div 4, 600 \div 4, "LIGHT"),
               Source((3 * 800) \div 4, (3 * 600) \div 4, "LIGHT") >>
      [] sc = "comparison" -> << Source(1200 \div 4, 700 \div 2 + 100, "LIGHT") >>
      [] OTHER -> << >>

InitialSourcesRight(sc) ==
    IF sc = "comparison"
    THEN << Source((3 * 1200) \div 4, 700 \div 2 + 100, "LIGHT") >>
    ELSE << >>

InitialSourceType(sc) ==
    CASE sc \in {"zones", "vehicle303"} -> "TEMPERATURE"
      [] sc = "vehicle3second" -> "light"
      [] OTHER -> "LIGHT"

InitialVehicleType(sc) == IF sc = "vehicle4" THEN "4a" ELSE "none"

\* the state each program is in when its frame loop starts
Init ==
    /\ scene \in Scenes
    /\ sources = InitialSources(scene)
    /\ sources_right = InitialSourcesRight(scene)
    /\ current_source_type = InitialSourceType(scene)
    /\ current_vehicle_type = InitialVehicleType(scene)
    /\ vehicles = CreateVehicles(scene, current_vehicle_type)
    /\ frames = 0
    /\ event = "init"
    /\ FrameStart
    /\ NoProbe

\* the pixels the mouse is clicked at, per program
ClickPoints(sc) ==
    CASE sc \in {"samplevehicle2", "vehicle3"} ->
            { << 300, 150 >>, << 200, 150 >> }
      [] sc = "zones" ->
            { << 250, 320 >>, << 600, 350 >>, << 900, 320 >>,
              << ZoneWidth, 350 >>, << 2 * ZoneWidth, 380 >> }
      [] sc = "vehicle303" -> { << 700, 300 >>, << 650, 270 >> }
      [] sc = "vehicle3second" -> { << 450, 340 >> }
      [] sc = "vehicle4" -> { << 500, 300 >>, << 450, 270 >> }
      [] sc = "comparison" ->
            { << 300, 400 >>, << 900, 400 >>, << 600, 100 >>, << 600, 400 >> }

\* Simulation.get_zone
GetZone(x) ==
    IF x < ZoneWidth THEN "left"
    ELSE IF x < 2 * ZoneWidth THEN "center"
    ELSE "right"

\* the selected type placed in every zone
PlacedTypeSelected(sc, x) == current_source_type

\* the type a click places: Simulation.add_source picks it by zone; the
\* other programs use the current type (Light and the comparison's Source
\* have one type only)
PlacedType(sc, x) ==
    IF sc = "zones"
    THEN IF GetZone(x) = "right" THEN current_source_type ELSE "GENERIC"
    ELSE current_source_type

\* a duplicate of a source already in the list is dropped
AddSourceOnce(list, s) ==
    IF \E i \in DOMAIN list : list[i] = s THEN list ELSE Append(list, s)

\* Simulation.add_source, sources.append, lights.append: the new source
\* goes to the end of the list, whatever the list holds
AddSource(list, s) == Append(list, s)

\* the source list after a click at pos.  The comparison ignores clicks in
\* the header (y <= 170) and keeps one list per half of the window.
\* a click that replaces the sources placed before
ClickedSourcesReplacing(pos) ==
    << Source(pos[1], pos[2], PlacedType(scene, pos[1])) >>

ClickedSources(pos) ==
    IF scene = "comparison" /\ ~(pos[2] > 170 /\ pos[1] < Width(scene) \div 2)
    THEN sources
    ELSE AddSource(sources, Source(pos[1], pos[2], PlacedType(scene, pos[1])))

ClickedSourcesRight(pos) ==
    IF scene = "comparison" /\ pos[2] > 170 /\ ~(pos[1] < Width(scene) \div 2)
    THEN AddSource(sources_right, Source(pos[1], pos[2], "LIGHT"))
    ELSE sources_right

\* MOUSEBUTTONDOWN: append a source
MouseDown(pos) ==
    /\ pos \in ClickPoints(scene)
    /\ Len(sources) < Len(InitialSources(scene)) + MaxSources
    /\ Len(sources_right) < Len(InitialSourcesRight(scene)) + MaxSources
    /\ sources' = ClickedSources(pos)
    /\ sources_right' = ClickedSourcesRight(pos)
    /\ event' = "click"
    /\ UNCHANGED << frame_vars, probe_vars >>
    /\ UNCHANGED << scene, vehicles, current_source_type, current_vehicle_type,
                    frames >>

\* the source type keys 1..4 select, per program
TypeOfKey(sc, k) ==
    CASE sc \in {"zones", "vehicle303"} ->
            << "TEMPERATURE", "LIGHT", "ORGANIC", "OXYGEN" >>[k]
      [] sc = "vehicle3second" -> << "light", "temp", "oxygen", "organic" >>[k]
      [] sc = "vehicle4" -> << "LIGHT", "SOUND", "SMELL", "HEAT" >>[k]

\* a type key that also gives the new type to every source already placed
KeyTypeRetyping(k) ==
    /\ scene \in {"zones", "vehicle303", "vehicle3second", "vehicle4"}
    /\ current_source_type' = TypeOfKey(scene, k)
    /\ sources' = [i \in DOMAIN sources |->
                      [sources[i] EXCEPT !.type = TypeOfKey(scene, k)]]
    /\ event' = "key"
    /\ UNCHANGED << frame_vars, probe_vars >>
    /\ UNCHANGED << scene, sources_right, vehicles, current_vehicle_type,
                    frames >>

\* KEYDOWN K_1 .. K_4
KeyType(k) ==
    /\ scene \in {"zones", "vehicle303", "vehicle3second", "vehicle4"}
    /\ current_source_type' = TypeOfKey(scene, k)
    /\ event' = "key"
    /\ UNCHANGED << frame_vars, probe_vars >>
    /\ UNCHANGED << scene, sources, sources_right, vehicles,
                    current_vehicle_type, frames >>

\* a reset that leaves every vehicle where it is
ResetVehiclesKept(sc) == vehicles

\* a reset that lets every vehicle roll on at its base speed
ResetVehiclesRolling(sc) ==
    [k \in DOMAIN vehicles |-> Move(vehicles[k], StartMotors(vehicles[k]))]

\* the vehicles after K_r: constructed anew, except in vehicle3second.py,
\* where K_r only empties the source list
ResetVehicles(sc) ==
    IF sc = "vehicle3second" THEN vehicles
    ELSE CreateVehicles(sc, current_vehicle_type)

\* the source lists after K_r: empty; the comparison builds its two initial
\* lists again
ResetSources(sc) ==
    IF sc = "comparison" THEN InitialSources(sc) ELSE << >>

ResetSourcesRight(sc) ==
    IF sc = "comparison" THEN InitialSourcesRight(sc) ELSE << >>

\* KEYDOWN K_r
KeyReset ==
    /\ scene \in {"zones", "vehicle303", "vehicle3second", "vehicle4",
                   "comparison"}
    /\ sources' = ResetSources(scene)
    /\ sources_right' = ResetSourcesRight(scene)
    /\ vehicles' = ResetVehicles(scene)
    /\ event' = "reset"
    /\ UNCHANGED << frame_vars, probe_vars >>
    /\ UNCHANGED << scene, current_source_type, current_vehicle_type, frames >>

\* vehicle3second.py KEYDOWN K_SPACE: the vehicle back to the centre
KeySpace ==
    /\ scene = "vehicle3second"
    /\ vehicles' = [vehicles EXCEPT ![1].x = (Width(scene) \div 2) * PosScale,
                                     ![1].y = (Height(scene) \div 2) * PosScale,
                                     ![1].heading = 0]
    /\ event' = "space"
    /\ UNCHANGED << frame_vars, probe_vars >>
    /\ UNCHANGED << scene, sources, sources_right, current_source_type,
                    current_vehicle_type, frames >>

\* a variant key that also clears the board
KeyVariantClearing(t) ==
    /\ scene = "vehicle4"
    /\ current_vehicle_type' = t
    /\ vehicles' = CreateVehicles(scene, t)
    /\ sources' = ResetSources(scene)
    /\ event' = "variant"
    /\ UNCHANGED << frame_vars, probe_vars >>
    /\ UNCHANGED << scene, sources_right, current_source_type, frames >>

\* vehicle4.py KEYDOWN K_a / K_b
KeyVariant(t) ==
    /\ scene = "vehicle4"
    /\ current_vehicle_type' = t
    /\ vehicles' = CreateVehicles(scene, t)
    /\ event' = "variant"
    /\ UNCHANGED << frame_vars, probe_vars >>
    /\ UNCHANGED << scene, sources, sources_right, current_source_type, frames >>

\* zone filters that give a boundary to the lower zone
VisibleSourcesLowerZone(sc, k) ==
    CASE sc = "zones" /\ k = 1 ->
            SelectSeq(sources, LAMBDA s : s.x <= ZoneWidth)
      [] sc = "zones" /\ k = 2 ->
            SelectSeq(sources, LAMBDA s : ZoneWidth < s.x /\ s.x <= 2 * ZoneWidth)
      [] sc = "zones" /\ k = 3 ->
            SelectSeq(sources, LAMBDA s : s.x > 2 * ZoneWidth)
      [] sc = "comparison" /\ k = 2 -> sources_right
      [] OTHER -> sources

\* the sources vehicle k is updated with: Simulation.update filters by
\* zone, the comparison passes each vehicle its own list
VisibleSources(sc, k) ==
    CASE sc = "zones" /\ k = 1 ->
            SelectSeq(sources, LAMBDA s : s.x < ZoneWidth)
      [] sc = "zones" /\ k = 2 ->
            SelectSeq(sources, LAMBDA s : ZoneWidth <= s.x /\ s.x < 2 * ZoneWidth)
      [] sc = "zones" /\ k = 3 ->
            SelectSeq(sources, LAMBDA s : s.x >= 2 * ZoneWidth)
      [] sc = "comparison" /\ k = 2 -> sources_right
      [] OTHER -> sources

\* an update that also pushes the next vehicle of the scene one step along x
UpdateAtPushing(vs, k) ==
    [j \in DOMAIN vs |->
        IF j = k THEN Update(vs[k], VisibleSources(scene, k))
        ELSE IF j = (k % Len(vs)) + 1
             THEN [vs[j] EXCEPT !.x = (vs[j].x + PosScale)
                                         % (Width(scene) * PosScale)]
             ELSE vs[j]]

\* vehicle.update(sources) on the k-th vehicle of the scene: the call has
\* the vehicle itself and the source list, nothing else
UpdateAt(vs, k) ==
    [vs EXCEPT ![k] = Update(vs[k], VisibleSources(scene, k))]

\* the vehicles after the calls order[1], order[2], ... in turn
RECURSIVE RunUpdates(_, _)
RunUpdates(vs, order) ==
    IF order = << >> THEN vs
    ELSE RunUpdates(UpdateAt(vs, Head(order)), Tail(order))

\* the order of the update loop: the list / dict insertion order, or the
\* order of the calls in Simulation.update and the comparison's main
UpdateOrder(vs) == [k \in 1 .. Len(vs) |-> k]

\* the update part of one frame: every vehicle, in order
Tick ==
    /\ frames < MaxFrames
    /\ vehicles' = RunUpdates(vehicles, UpdateOrder(vehicles))
    /\ frames' = frames + 1
    /\ event' = "tick"
    /\ UNCHANGED << frame_vars, probe_vars >>
    /\ UNCHANGED << scene, sources, sources_right, current_source_type,
                    current_vehicle_type >>

Next ==
    \/ \E pos \in ClickPoints(scene) : MouseDown(pos)
    \/ \E k \in 1..4 : KeyType(k)
    \/ KeyReset
    \/ KeySpace
    \/ \E t \in {"4a", "4b"} : KeyVariant(t)
    \/ Tick

Spec == Init /\ [][Next]_vars

-----------------------------------------------------------------------------
(* One frame, statement by statement: pygame.event.get(), the for loop    *)
(* over the events it returned, then the update loop over the vehicles.   *)
(* Input arrives in pygame's queue at any moment, also between two        *)
(* updates.                                                               *)

MaxPending == 2

NoPos == << 0, 0 >>

InputEvent(kind, pos, k) == [kind |-> kind, pos |-> pos, key |-> k]

\* the input the user sends: a click (in vehicle303.py also one next to
\* the sensors of its first vehicle), the type key 2, K_r
FrameClicks(sc) ==
    CASE sc \in {"samplevehicle2", "vehicle3"} -> { << 300, 150 >> }
      [] sc = "zones" -> { << 600, 350 >> }
      [] sc = "vehicle303" -> { << 650, 270 >>, << 230, 300 >> }
      [] sc = "vehicle3second" -> { << 450, 340 >> }
      [] sc = "vehicle4" -> { << 450, 270 >> }
      [] sc = "comparison" -> { << 300, 400 >> }

FrameInputs(sc) ==
    { InputEvent("click", pos, 0) : pos \in FrameClicks(sc) }
       \cup ( IF sc \in {"vehicle303", "vehicle4"}
              THEN { InputEvent("key", NoPos, 2), InputEvent("reset", NoPos, 0) }
              ELSE { } )

Clicks(queue) == Len(SelectSeq(queue, LAMBDA e : e.kind = "click"))

\* the window system puts an input event into pygame's queue
PostEvent(e) ==
    /\ e \in FrameInputs(scene)
    /\ frames < MaxFrames
    /\ Len(pending) < MaxPending
    /\ e.kind = "click" =>
          Len(sources) + Clicks(pending) + Clicks(batch)
             < Len(InitialSources(scene)) + MaxPending
    /\ pending' = Append(pending, e)
    /\ UNCHANGED << scene, sources, sources_right, vehicles,
                    current_source_type, current_vehicle_type, frames, event,
                    batch, pc, seen >>
    /\ UNCHANGED probe_vars

\* pygame.event.get(): the queue is taken whole and emptied
GetEvents ==
    /\ pc = "get"
    /\ frames < MaxFrames
    /\ batch' = pending
    /\ pending' = << >>
    /\ pc' = "events"
    /\ seen' = << >>
    /\ event' = "get"
    /\ UNCHANGED << scene, sources, sources_right, vehicles,
                    current_source_type, current_vehicle_type, frames >>
    /\ UNCHANGED probe_vars

\* one pass of the body of  for event in pygame.event.get()
HandleEvent ==
    /\ pc = "events"
    /\ batch # << >>
    /\ LET e == Head(batch) IN
          /\ sources' = CASE e.kind = "click" -> ClickedSources(e.pos)
                          [] e.kind = "reset" -> ResetSources(scene)
                          [] OTHER -> sources
          /\ sources_right' = CASE e.kind = "click" -> ClickedSourcesRight(e.pos)
                                [] e.kind = "reset" -> ResetSourcesRight(scene)
                                [] OTHER -> sources_right
          /\ vehicles' = IF e.kind = "reset" THEN ResetVehicles(scene)
                         ELSE vehicles
          /\ current_source_type' =
                IF e.kind = "key" THEN TypeOfKey(scene, e.key)
                ELSE current_source_type
          /\ event' = e.kind
    /\ batch' = Tail(batch)
    /\ UNCHANGED << scene, current_vehicle_type, frames, pending, pc, seen >>
    /\ UNCHANGED probe_vars

\* an update that first takes a click straight from pygame's queue
UpdateVehicleApplying ==
    /\ \/ pc = "events" /\ batch = << >>
       \/ pc = "update"
    /\ LET k == Len(seen) + 1
           clicked == pending # << >> /\ Head(pending).kind = "click"
           lists == IF clicked
                    THEN << ClickedSources(Head(pending).pos),
                            ClickedSourcesRight(Head(pending).pos) >>
                    ELSE << sources, sources_right >>
       IN /\ sources' = lists[1]
          /\ sources_right' = lists[2]
          /\ pending' = IF clicked THEN Tail(pending) ELSE pending
          /\ vehicles' = UpdateAt(vehicles, k)
          /\ seen' = Append(seen, lists)
          /\ pc' = IF k = Len(vehicles) THEN "get" ELSE "update"
          /\ frames' = IF k = Len(vehicles) THEN frames + 1 ELSE frames
    /\ event' = "update"
    /\ UNCHANGED << scene, current_source_type, current_vehicle_type, batch >>
    /\ UNCHANGED probe_vars

\* one pass of the body of  for vehicle in vehicles: vehicle.update(sources),
\* entered when the event loop has run out of events
UpdateVehicle ==
    /\ \/ pc = "events" /\ batch = << >>
       \/ pc = "update"
    /\ LET k == Len(seen) + 1
       IN /\ vehicles' = UpdateAt(vehicles, k)
          /\ seen' = Append(seen, << sources, sources_right >>)
          /\ pc' = IF k = Len(vehicles) THEN "get" ELSE "update"
          /\ frames' = IF k = Len(vehicles) THEN frames + 1 ELSE frames
    /\ event' = "update"
    /\ UNCHANGED << scene, sources, sources_right, current_source_type,
                    current_vehicle_type, pending, batch >>
    /\ UNCHANGED probe_vars

NextFrame ==
    \/ \E e \in FrameInputs(scene) : PostEvent(e)
    \/ GetEvents
    \/ HandleEvent
    \/ UpdateVehicle

SpecFrame == Init /\ [][NextFrame]_vars

----------------------------------------------------------------------------
(* One vehicle under update(sources): the vehicle is constructed at a pose *)
(* and update is called on it with a list of sources, as each program's    *)
(* frame loop does with its own vehicles and lists.                        *)

\* most sources in the list handed to update
MaxUnitSources == 2

Classes == UNION { ClassesOf(sc) : sc \in Scenes }

\* a pixel well inside the region the class moves in
Origin(cls) ==
    CASE cls = "gauss" -> << 100, 300 >>
      [] cls = "linear" -> << 700, 300 >>
      [] OTHER -> << 100, 100 >>

\* the poses a vehicle is constructed at: two inside the window, one on the
\* last pixel column heading right, one on the first heading left (for the
\* comparison vehicles, the columns their region ends at)
UnitPoses(cls) ==
    LET o == Origin(cls)
        W == Width(SceneOf(cls))
        lo == CASE cls = "gauss" -> 20
                [] cls = "linear" -> W \div 2 + 30
                [] OTHER -> 0
        hi == CASE cls = "gauss" -> W \div 2 - 30
                [] cls = "linear" -> W - 20
                [] OTHER -> W - 1
    IN  { << o[1], o[2], 0 >>, << o[1], o[2], HeadingHalf >>,
          << hi, o[2], 0 >>, << lo, o[2], HeadingPi >> }

\* the types of source the program of the class can hand to its update
SourceTypes(cls) ==
    CASE cls \in {"2a", "2b", "2c", "3a", "3b", "gauss", "linear"} -> {"LIGHT"}
      [] cls \in {"z3a", "z3b"} -> {"GENERIC"}
      [] cls \in {"z3c", "303a", "303b", "303c"} ->
            {"TEMPERATURE", "LIGHT", "ORGANIC", "OXYGEN"}
      [] cls = "s3c" -> {"light", "temp", "oxygen", "organic"}
      [] cls \in {"4a", "4b"} -> {"LIGHT", "SOUND", "SMELL", "HEAT"}

\* where sources are put, relative to Origin: on the heading-0 axis, next
\* to the left sensor, and on the right-hand side
UnitOffsets == { << 100, 0 >>, << 30, -20 >>, << 60, 50 >> }

UnitSources(cls) ==
    { Source(Origin(cls)[1] + d[1], Origin(cls)[2] + d[2], ty) :
        d \in UnitOffsets, ty \in SourceTypes(cls) }

UnitSourceLists(cls) ==
    UNION { [1..n -> UnitSources(cls)] : n \in 0..MaxUnitSources }

InitUnit ==
    \E cls \in Classes :
        /\ scene = SceneOf(cls)
        /\ sources \in UnitSourceLists(cls)
        /\ sources_right = << >>
        /\ \E pose \in UnitPoses(cls) :
              vehicles = << NewVehicle(cls, pose[1], pose[2], pose[3]) >>
        /\ current_source_type = InitialSourceType(scene)
        /\ current_vehicle_type = InitialVehicleType(scene)
        /\ frames = 0
        /\ event = "init"
        /\ FrameStart
        /\ NoProbe
    /\ NoProbe

\* vehicle.update(sources)
UpdateOne ==
    /\ frames < MaxFrames
    /\ vehicles' = << Update(vehicles[1], sources) >>
    /\ frames' = frames + 1
    /\ event' = "tick"
    /\ UNCHANGED << frame_vars, probe_vars >>
    /\ UNCHANGED << scene, sources, sources_right, current_source_type,
                    current_vehicle_type >>

NextUnit == UpdateOne

SpecUnit == InitUnit /\ [][NextUnit]_vars

-----------------------------------------------------------------------------
(* VehicleTwo and VehicleThree constructed with any config letter, then    *)
(* updated.                                                                *)

Configs == { "a", "b", "c", "x" }

\* the branch of update a config letter selects: VehicleTwo.update has one
\* for 'a', 'b' and 'c', VehicleThree.update for 'a' and 'b', and neither
\* has an else
BranchOf(family, config) ==
    CASE family = "VehicleTwo" /\ config \in { "a", "b", "c" } -> "2" \o config
      [] family = "VehicleThree" /\ config \in { "a", "b" } -> "3" \o config
      [] OTHER -> "none"

SceneOfFamily(family) ==
    IF family = "VehicleTwo" THEN "samplevehicle2" ELSE "vehicle3"

\* __init__ stores the config letter as it is given; nothing is checked
Construct(family, config, pose) ==
    [ NewVehicle(IF family = "VehicleTwo" THEN "2a" ELSE "3a",
                 pose[1], pose[2], pose[3])
        EXCEPT !.cls = BranchOf(family, config) ]

InitConfig ==
    \E family \in { "VehicleTwo", "VehicleThree" }, config \in Configs :
        /\ scene = SceneOfFamily(family)
        /\ sources \in UnitSourceLists("2a")
        /\ sources_right = << >>
        /\ \E pose \in UnitPoses("2a") :
              vehicles = << Construct(family, config, pose) >>
        /\ current_source_type = InitialSourceType(scene)
        /\ current_vehicle_type = InitialVehicleType(scene)
        /\ frames = 0
        /\ event = "init"
        /\ FrameStart
        /\ NoProbe
    /\ NoProbe

\* vehicle.update(lights): with no branch taken left_motor is unbound and
\* the line after the if chain raises UnboundLocalError, before anything of
\* the vehicle is assigned; the exception ends the program
UpdateConfigured ==
    /\ frames < MaxFrames
    /\ event # "raise"
    /\ IF vehicles[1].cls = "none"
       THEN vehicles' = vehicles /\ event' = "raise"
       ELSE vehicles' = << Update(vehicles[1], sources) >> /\ event' = "tick"
    /\ frames' = frames + 1
    /\ UNCHANGED << scene, sources, sources_right, current_source_type,
                    current_vehicle_type >>
    /\ UNCHANGED << frame_vars, probe_vars >>

NextConfig == UpdateConfigured

SpecConfig == InitConfig /\ [][NextConfig]_vars

-----------------------------------------------------------------------------
(* The sensing and response functions called alone: the field of a short   *)
(* source list measured at one point, and the threshold response of one    *)
(* intensity.                                                              *)

MaxFieldSources == 2

\* where the sources of the measured field are, in pixels
FieldCentre == << 100, 100 >>

FieldAside == << 100, 130 >>

\* a source of every type at the centre, and one more of one type aside
FieldSources(cls) ==
    { Source(FieldCentre[1], FieldCentre[2], ty) : ty \in SourceTypes(cls) }
       \cup { Source(FieldAside[1], FieldAside[2],
                     CHOOSE ty \in SourceTypes(cls) : TRUE) }

FieldSourceLists(cls) ==
    UNION { [1 .. n -> FieldSources(cls)] : n \in 0 .. MaxFieldSources }

\* the distances of the measured point from the centre, in position units
\* (0.1 pixel): at it, on and around the floors 0.1, 0.5 and 1.0, and far
\* from it
ProbeOffsets == { 0, 1, 4, 5, 6, 9, 10, 11, 250, 1000 }

ProbePoint(offset) ==
    << FieldCentre[1] * PosScale + offset, FieldCentre[2] * PosScale >>

\* the intensities the threshold response is called with: none, and the
\* threshold of the type less and plus a little
ProbeIntensities(ty) ==
    { 0, Threshold(ty) - 1, Threshold(ty), Threshold(ty) + 1,
      Threshold(ty) + 7, Threshold(ty) + 100 * IntScale }

\* the intensities the bell curve is called with: the optimum of the type,
\* the optimum less and plus a little, a width and three widths, no
\* intensity, and the intensity of a source at the sensor itself
BellIntensities(cls, ty) ==
    { OptimalIntensity(ty) + d * s :
         d \in { 0, 1, IntScale, CurveWidth(ty) \div 2,
                 OptimalIntensity(ty) }, s \in { -1, 1 } }
       \cup { OptimalIntensity(ty) + 3 * CurveWidth(ty),
              InvSquareK(cls) * IntScale }

\* what one sensor at point p reads on the channel ty
FieldReading(cls, p, list, ty) ==
    IF cls = "s3c" THEN SensorStrengths(p, list, ty)
    ELSE IntensityAt(cls, p, list, ty)

InitField ==
    \E cls \in Classes :
        /\ scene = SceneOf(cls)
        /\ sources \in FieldSourceLists(cls)
        /\ sources_right = << >>
        /\ vehicles = << >>
        /\ current_source_type = InitialSourceType(scene)
        /\ current_vehicle_type = InitialVehicleType(scene)
        /\ frames = 0
        /\ event = "init"
        /\ FrameStart
        /\ \/ \E offset \in ProbeOffsets :
                 probe = [cls |-> cls, point |-> ProbePoint(offset),
                          ty |-> "none", intensity |-> 0]
           \/ /\ cls = "4b"
              /\ \E k \in DOMAIN Channels(cls) :
                    \E intensity \in ProbeIntensities(Channels(cls)[k]) :
                       probe = [cls |-> cls, point |-> ProbePoint(0),
                                ty |-> Channels(cls)[k],
                                intensity |-> intensity]
           \/ /\ cls \in { "4a", "gauss" }
              /\ sources = << >>
              /\ \E k \in DOMAIN Channels(cls) :
                    \E intensity \in BellIntensities(cls, Channels(cls)[k]) :
                       probe = [cls |-> cls, point |-> ProbePoint(0),
                                ty |-> Channels(cls)[k],
                                intensity |-> intensity]
        /\ reading = NoReading

\* _intensity_at / _total_intensity / _sensor_strengths of every channel at
\* the probe's point
MeasureField ==
    /\ ~reading.measured
    /\ reading' =
          [reading EXCEPT
             !.measured = TRUE,
             !.intensity =
                [k \in DOMAIN Channels(probe.cls) |->
                    FieldReading(probe.cls, probe.point, sources,
                                 Channels(probe.cls)[k])]]
    /\ event' = "measure"
    /\ UNCHANGED << scene, sources, sources_right, vehicles,
                    current_source_type, current_vehicle_type, frames, probe >>
    /\ UNCHANGED frame_vars

\* VehicleFourB._threshold_response with the parameters of the probe's type
RespondThreshold ==
    /\ probe.cls = "4b"
    /\ probe.ty # "none"
    /\ ~reading.responded
    /\ reading' =
          [reading EXCEPT
             !.responded = TRUE,
             !.response = ThresholdResponse(probe.intensity,
                                            Threshold(probe.ty),
                                            MinActivation(probe.ty),
                                            Slope(probe.ty))]
    /\ event' = "respond"
    /\ UNCHANGED << scene, sources, sources_right, vehicles,
                    current_source_type, current_vehicle_type, frames, probe >>
    /\ UNCHANGED frame_vars

\* VehicleFourA._bell_curve_response / VehicleGaussian._gaussian_response
\* with the optimum and width of the probe's type
RespondBell ==
    /\ probe.cls \in { "4a", "gauss" }
    /\ probe.ty # "none"
    /\ ~reading.responded
    /\ reading' =
          [reading EXCEPT
             !.responded = TRUE,
             !.response = BellCurveResponse(probe.intensity,
                                            OptimalIntensity(probe.ty),
                                            CurveWidth(probe.ty)),
             !.positive = ~BellCurveUnderflows(probe.intensity,
                                               OptimalIntensity(probe.ty),
                                               CurveWidth(probe.ty))]
    /\ event' = "respond"
    /\ UNCHANGED << scene, sources, sources_right, vehicles,
                    current_source_type, current_vehicle_type, frames, probe >>
    /\ UNCHANGED frame_vars

NextField == MeasureField \/ RespondThreshold \/ RespondBell

SpecField == InitField /\ [][NextField]_vars

----------------------------------------------------------------------------
(* Properties.  In a step with event' = "tick" every vehicle has been      *)
(* updated once: vehicles[k] is the vehicle before the update and          *)
(* vehicles'[k] after it, with the readings the update took in its sense   *)
(* field.                                                                  *)

\* the change of heading in the step, and whether it is toward the side
\* the class puts its left sensor on
HeadingChange(k) == vehicles'[k].heading - vehicles[k].heading

TurnsTowardLeft(k) ==
    Sgn(HeadingChange(k)) = Sgn(LeftSensorAngle(vehicles[k].cls))

TurnsAwayFromLeft(k) ==
    Sgn(HeadingChange(k)) = -Sgn(LeftSensorAngle(vehicles[k].cls))

\* the classes whose excitatory channels are linear in the reading and
\* wired either crossed or uncrossed
LinearExcitatoryClasses == {"2a", "2b", "z3c", "303c", "s3c"}

\* C1: with a single source that the left sensor reads more strongly than
\* the right one, a crossed excitatory channel turns the heading toward the
\* left sensor's side and an uncrossed excitatory channel turns it away
CrossedApproachesUncrossedFlees ==
    [][(event' = "tick" /\ Len(sources) = 1) =>
        \A k \in DOMAIN vehicles :
            vehicles[k].cls \in LinearExcitatoryClasses =>
                \A c \in DOMAIN Channels(vehicles[k].cls) :
                    LET ty == Channels(vehicles[k].cls)[c]
                        rd == vehicles'[k].sense[c]
                    IN  (Excitatory(vehicles[k].cls, ty) /\ rd[1] > rd[2]) =>
                            IF Crossed(vehicles[k].cls, ty)
                            THEN TurnsTowardLeft(k)
                            ELSE TurnsAwayFromLeft(k)]_vars

\* C2: in every tick of every vehicle the heading changes by
\* (left_motor - right_motor) / wheelbase
UniformTurnSign ==
    [][event' = "tick" =>
        \A k \in DOMAIN vehicles :
            HeadingChange(k) =
                RoundDiv((vehicles'[k].left_motor - vehicles'[k].right_motor)
                            * TurnNum(vehicles[k].cls), TurnDen(vehicles[k].cls))]_vars

\* the position the integration step computes before it is wrapped
PreWrap(k) ==
    Advance(vehicles[k], vehicles'[k].heading,
            ForwardSpeed(vehicles'[k].left_motor, vehicles'[k].right_motor))

\* vehicle k ends the step at the pre-wrap position modulo the window
WrappedAround(k) ==
    LET W == Width(scene) * PosScale
        H == Height(scene) * PosScale
    IN  /\ vehicles'[k].x = PreWrap(k)[1] % W
        /\ vehicles'[k].y = PreWrap(k)[2] % H
        /\ 0 <= vehicles'[k].x /\ vehicles'[k].x < W
        /\ 0 <= vehicles'[k].y /\ vehicles'[k].y < H

AtInitialPoses ==
    \A k \in DOMAIN vehicles :
        LET v0 == CreateVehicles(scene, current_vehicle_type)[k]
        IN  /\ vehicles[k].x = v0.x
            /\ vehicles[k].y = v0.y
            /\ vehicles[k].heading = v0.heading

ResetChangesNothing ==
    /\ ResetVehicles(scene) = vehicles
    /\ ResetSources(scene) = sources
    /\ ResetSourcesRight(scene) = sources_right

EmptyFieldBaseSpeed ==
    [][(event' = "tick" /\ sources = << >>) =>
        \A k \in DOMAIN vehicles :
            LET v    == vehicles[k]
                base == BaseSpeed(v.cls)
                to   == Advance(v, v.heading, ForwardSpeed(base, base))
            IN  /\ vehicles'[k].left_motor = base
                /\ vehicles'[k].right_motor = base
                /\ vehicles'[k].heading = v.heading
                /\ << vehicles'[k].x, vehicles'[k].y >>
                      = Confine(v.cls, to[1], to[2])]_vars

\* C7: an update whose left and right readings are equal in every channel
\* gives equal motors and leaves the heading as it was
EqualReadingsNoTurn ==
    [][event' = "tick" =>
        \A k \in DOMAIN vehicles :
            (\A c \in DOMAIN vehicles'[k].sense :
                vehicles'[k].sense[c][1] = vehicles'[k].sense[c][2]) =>
                    /\ vehicles'[k].left_motor = vehicles'[k].right_motor
                    /\ TurningRate(vehicles[k].cls, vehicles'[k].left_motor,
                                   vehicles'[k].right_motor) = 0
                    /\ vehicles'[k].heading = vehicles[k].heading]_vars

\* the three-channel vehicle of vehicle303.py, heading 0, has been updated
\* with one heat source on its heading axis: both sensors read it equally
\* and it has raised both motors
SymmetricSourceSeen ==
    /\ event = "tick" /\ frames = 1 /\ Len(sources) = 1
    /\ vehicles[1].cls = "303c" /\ vehicles[1].heading = 0
    /\ sources[1].type = "TEMPERATURE"
    /\ sources[1].y * PosScale = vehicles[1].y
    /\ vehicles[1].sense[1][1] = vehicles[1].sense[1][2]
    /\ vehicles[1].sense[1][1] > IntScale
    /\ vehicles[1].left_motor > BaseSpeed(vehicles[1].cls)

\* the classes whose update adds several channels into the two accumulators
MultiChannelClasses == {"z3c", "303c", "s3c", "4a", "4b"}

\* gain times activation of reading i (1 left, 2 right) of a channel
Activation(cls, ty, rd, i) ==
    CASE cls \in {"z3c", "303c"} -> Scaled(cls, ty, rd[i])
      [] cls = "s3c" -> RoundDiv(rd[i] * Weight(ty), TrigScale)
      [] cls = "4a" ->
            IF rd[1] < IntScale \div 10 /\ rd[2] < IntScale \div 10 THEN 0
            ELSE Boost(cls, BellCurveResponse(rd[i], OptimalIntensity(ty),
                                              CurveWidth(ty)))
      [] cls = "4b" -> ThresholdResponse(rd[i], Threshold(ty),
                                         MinActivation(ty), Slope(ty))

\* what channel c adds to the motor of a side (1 left, 2 right): the
\* same-side reading if uncrossed, the other side's if crossed, negated if
\* inhibitory
ChannelTerm(k, c, side) ==
    LET cls == vehicles[k].cls
        ty  == Channels(cls)[c]
        rd  == vehicles'[k].sense[c]
        i   == IF Crossed(cls, ty) THEN 3 - side ELSE side
    IN  (IF Excitatory(cls, ty) THEN 1 ELSE -1) * Activation(cls, ty, rd, i)

ChannelSum(k, side) ==
    ChannelTerm(k, 1, side) + ChannelTerm(k, 2, side)
        + ChannelTerm(k, 3, side) + ChannelTerm(k, 4, side)

\* C8: the motor pair of a multi-channel vehicle is the clamp, applied once,
\* of base_speed plus the sum of the channels' signed, routed terms
MotorsAreClampedSum ==
    [][event' = "tick" =>
        \A k \in DOMAIN vehicles :
            vehicles[k].cls \in MultiChannelClasses =>
                /\ vehicles'[k].left_motor =
                      ClampMotor(vehicles[k].cls,
                          BaseSpeed(vehicles[k].cls) + ChannelSum(k, 1))
                /\ vehicles'[k].right_motor =
                      ClampMotor(vehicles[k].cls,
                          BaseSpeed(vehicles[k].cls) + ChannelSum(k, 2))]_vars

\* the left sum of the readings the vehicle took last, for vehicle303.py's
\* three-channel vehicle: heat and organic uncrossed, light and oxygen crossed
ChannelSumSeen(k) ==
    LET rd == vehicles[k].sense
    IN  Scaled("303c", "TEMPERATURE", rd[1][1]) + Scaled("303c", "LIGHT", rd[2][2])
        - Scaled("303c", "ORGANIC", rd[3][1]) - Scaled("303c", "OXYGEN", rd[4][2])

\* the three-channel vehicle of vehicle303.py has been updated with a light
\* source (crossed, excitatory) and an organic source (uncrossed,
\* inhibitory), each read differently left and right; the inhibition takes
\* the left sum below zero and the left motor is 0
ExcitedAndInhibited ==
    /\ event = "tick" /\ vehicles[1].cls = "303c"
    /\ vehicles[1].sense[2][1] # vehicles[1].sense[2][2]
    /\ vehicles[1].sense[3][1] # vehicles[1].sense[3][2]
    /\ BaseSpeed("303c") + ChannelSumSeen(1) < 0
    /\ vehicles[1].left_motor = 0
    /\ vehicles[1].right_motor > 0

\* C9: both motors of every vehicle are at least 0
MotorsNonNegative ==
    \A k \in DOMAIN vehicles :
        vehicles[k].left_motor >= 0 /\ vehicles[k].right_motor >= 0

\* an inhibitory vehicle has been updated next to a source strong enough to
\* take a motor below zero, and the motor is 0
FloorReached ==
    /\ event = "tick" /\ vehicles[1].cls = "z3a"
    /\ Scaled("z3a", "GENERIC", vehicles[1].sense[1][1]) > BaseSpeed("z3a")
    /\ vehicles[1].left_motor = 0

\* the vehicle with nothing left over from earlier updates
Blank(v) ==
    [v EXCEPT !.left_motor = 0, !.right_motor = 0, !.trail = << >>,
              !.sense = [c \in DOMAIN v.sense |-> << 0, 0 >>]]

\* C10: an update ends with the position, heading and motors it would end
\* with had the vehicle no motor values, readings or trail from before
MemorylessTick ==
    [][event' = "tick" =>
        \A k \in DOMAIN vehicles :
            LET w == vehicles'[k]
                b == Update(Blank(vehicles[k]), sources)
            IN  /\ w.x = b.x /\ w.y = b.y /\ w.heading = b.heading
                /\ w.left_motor = b.left_motor
                /\ w.right_motor = b.right_motor]_vars

\* the gaussian vehicle has been updated a second time, with a source in
\* view and with motors, readings and a trail left by the first update
SecondTickWithLeftovers ==
    /\ event = "tick" /\ frames = 2 /\ sources # << >>
    /\ vehicles[1].cls = "gauss"
    /\ Len(vehicles[1].trail) = 2
    /\ vehicles[1].left_motor # vehicles[1].right_motor

\* ---------------------------------------------------------------------------
\* Source collections between resets
\* ---------------------------------------------------------------------------

\* new is old, or old with one more source at its end
Grown(old, new) ==
    \/ new = old
    \/ /\ Len(new) = Len(old) + 1
       /\ SubSeq(new, 1, Len(old)) = old

SourceCount == Len(sources) + Len(sources_right)

\* C11: between two resets the source lists are append-only.  Every step
\* that is not a reset keeps every placed source, with its position, type
\* and place in the list; a click puts exactly one source at the end of one
\* list (the comparison ignores the clicks in its header), also when an
\* equal source is already there; ticks and type keys leave the lists as
\* they are.
SourcesAppendOnly ==
    [][event' # "reset" =>
          /\ Grown(sources, sources')
          /\ Grown(sources_right, sources_right')
          /\ event' = "click" =>
                \/ SourceCount' = SourceCount + 1
                \/ scene = "comparison" /\ SourceCount' = SourceCount
          /\ event' # "click" =>
                sources' = sources /\ sources_right' = sources_right]_vars

\* a click has placed a source equal to one already in the list
DuplicateSourcePlaced ==
    /\ event = "click"
    /\ \E i \in DOMAIN sources :
          i < Len(sources) /\ sources[i] = sources[Len(sources)]

\* C12: a source type key (1-4) changes the selected type and nothing
\* else: every placed source keeps its type and position, the number of
\* sources and every vehicle stay as they are; a source placed afterwards
\* in a program with a free choice of type carries the selected type.
TypeKeyChangesOnlySelection ==
    [][/\ event' = "key" =>
             /\ sources' = sources
             /\ sources_right' = sources_right
             /\ vehicles' = vehicles
             /\ frames' = frames
       /\ ( /\ event' = "click"
            /\ scene \in {"vehicle303", "vehicle3second", "vehicle4"} ) =>
             /\ Len(sources') = Len(sources) + 1
             /\ sources'[Len(sources')].type = current_source_type]_vars

\* a type key pressed after a source of another type was placed and the
\* vehicles have moved
TypeKeyAfterPlacing ==
    /\ event = "key"
    /\ scene = "vehicle303"
    /\ frames > 0
    /\ sources # << >>
    /\ sources[1].type # current_source_type

\* ---------------------------------------------------------------------------
\* Zoned scenes
\* ---------------------------------------------------------------------------

\* the vehicles whose update is passed a source equal to s
SeenBy(s) ==
    { k \in DOMAIN vehicles :
         \E i \in DOMAIN VisibleSources(scene, k) :
            VisibleSources(scene, k)[i] = s }

\* the vehicle that lives in a zone of the three-zone scene
VehicleOfZone(zone) ==
    CASE zone = "left" -> 1 [] zone = "center" -> 2 [] zone = "right" -> 3

AllSources == { sources[i] : i \in DOMAIN sources }
                  \cup { sources_right[i] : i \in DOMAIN sources_right }

\* C13: in the zoned scenes every placed source is passed to exactly one
\* vehicle.  In the three-zone scene that vehicle is the one of the zone
\* get_zone gives for the source's x, which is the zone add_source chose the
\* type by (only the right zone places a type other than GENERIC); a source
\* at x = zone_width is the centre vehicle's and one at x = 2 * zone_width
\* is the right vehicle's.  In the comparison the left list is the Gaussian
\* vehicle's and the right list the linear vehicle's, split at WIDTH // 2.
EverySourceInOneZone ==
    /\ scene = "zones" =>
          \A s \in AllSources :
             /\ SeenBy(s) = { VehicleOfZone(GetZone(s.x)) }
             /\ s.type = "GENERIC" <=> GetZone(s.x) # "right"
             /\ s.x = ZoneWidth => SeenBy(s) = { 2 }
             /\ s.x = 2 * ZoneWidth => SeenBy(s) = { 3 }
    /\ scene = "comparison" =>
          \A s \in AllSources :
             /\ Cardinality(SeenBy(s)) = 1
             /\ SeenBy(s) = IF s.x < Width(scene) \div 2 THEN { 1 } ELSE { 2 }

\* a tick with one source on the boundary x = zone_width: the centre
\* vehicle has sensed it, the left vehicle has sensed nothing
BoundarySourceTicked ==
    /\ scene = "zones"
    /\ event = "tick"
    /\ Len(sources) = 1
    /\ sources[1].x = ZoneWidth
    /\ vehicles[2].sense[1] # << 0, 0 >>
    /\ vehicles[1].sense[1] = << 0, 0 >>

\* ---------------------------------------------------------------------------
\* Vehicles of one scene
\* ---------------------------------------------------------------------------

\* every order the vehicles of the scene can be updated in
UpdateOrders ==
    { o \in [1 .. Len(vehicles) -> 1 .. Len(vehicles)] :
         \A i, j \in 1 .. Len(vehicles) : i # j => o[i] # o[j] }

\* C15: vehicles do not interact.  After a tick every vehicle is what its
\* own update makes of its own state and the sources it is passed, whatever
\* the other vehicles are and do (so updating one vehicle leaves position,
\* heading and motors of every other unchanged), and the tick gives the
\* same vehicles for every order of the updates.
VehiclesDoNotInteract ==
    [][event' = "tick" =>
          /\ \A k \in DOMAIN vehicles :
                vehicles'[k] = Update(vehicles[k], VisibleSources(scene, k))
          /\ \A k, j \in DOMAIN vehicles :
                j # k => UpdateAt(vehicles, k)[j] = vehicles[j]
          /\ \A o \in UpdateOrders : vehicles' = RunUpdates(vehicles, o)]_vars

\* a tick of a scene whose three vehicles all sense the same source, two of
\* them turning
ThreeVehiclesTicked ==
    /\ event = "tick"
    /\ scene = "vehicle303"
    /\ Len(vehicles) = 3
    /\ sources # << >>
    /\ \A k \in DOMAIN vehicles : vehicles[k].sense[1][1] > 0
    /\ vehicles[2].left_motor # vehicles[2].right_motor
    /\ vehicles[3].left_motor # vehicles[3].right_motor

\* ---------------------------------------------------------------------------
\* Events and updates inside one frame
\* ---------------------------------------------------------------------------

\* C14: in every frame the events the frame fetched are all handled before
\* the first vehicle is updated, and the source lists do not change while
\* the vehicles are updated: every vehicle updated in one frame is updated
\* with the same lists, the lists as they are when the update loop ends.
\* Input that arrives during the update loop stays in the queue until the
\* next frame.
EventsBeforeUpdates ==
    /\ seen # << >> => batch = << >>
    /\ \A i \in DOMAIN seen : seen[i] = << sources, sources_right >>

\* two vehicles have been updated with a source the frame's own events
\* placed, while a click that arrived after the fetch waits in the queue
ClickWaitsForNextFrame ==
    /\ Len(seen) > 1
    /\ seen[1][1] # InitialSources(scene)
    /\ Clicks(pending) > 0

\* ---------------------------------------------------------------------------
\* Construction with an unsupported configuration
\* ---------------------------------------------------------------------------

\* C16: a vehicle with an unknown config letter is rejected when it is
\* constructed, so no constructed vehicle has a config without a branch in
\* update, and no update fails for want of one.
UnknownConfigRejectedAtConstruction ==
    \A k \in DOMAIN vehicles :
       vehicles[k].cls = "none" => frames = 0 /\ event # "raise"

\* ---------------------------------------------------------------------------
\* The field of the sources at a point
\* ---------------------------------------------------------------------------

\* the probe is at the place of the only source of the list
ProbeOnSource ==
    /\ reading.measured
    /\ Len(sources) = 1
    /\ DistSq(probe.point, sources[1]) = 0

\* the channels of the probe's class that count the source
ChannelsOf(src) ==
    { k \in DOMAIN Channels(probe.cls) :
         Matches(src, Channels(probe.cls)[k]) }

\* C17: a source exactly at the sensor (distance 0) is not skipped and
\* contributes what the distance clamped to the variant's floor gives: a
\* value above zero that is at least the contribution of the same source at
\* every larger distance.
SourceAtSensorCountsMost ==
    ProbeOnSource =>
       \A k \in ChannelsOf(sources[1]) :
          /\ reading.intensity[k] > 0
          /\ \A offset \in ProbeOffsets :
                reading.intensity[k] >=
                   FieldReading(probe.cls, ProbePoint(offset), sources,
                                Channels(probe.cls)[k])

InverseDistanceClasses == { "2a", "2b", "2c", "3a", "3b" }

\* base + k / max(d, d_min) with base 50, k 1000 and d_min 0.1, for a
\* distance in position units
ClampedInverseDistance(d) ==
    50 * IntScale + (1000 * IntScale * PosScale) \div Max(d, 1)

RECURSIVE SumClampedInverseDistance(_, _)
SumClampedInverseDistance(p, list) ==
    IF list = << >> THEN 0
    ELSE ClampedInverseDistance(ISqrt(DistSq(p, Head(list))))
            + SumClampedInverseDistance(p, Tail(list))

\* C18: in the inverse-distance variants the intensity of one source at
\* distance d is 50 + 1000 / max(d, 0.1) for every d >= 0, and the intensity
\* at a point is the sum of that over all sources.
InverseDistanceLawEverywhere ==
    ( reading.measured /\ probe.cls \in InverseDistanceClasses ) =>
       reading.intensity[1] = SumClampedInverseDistance(probe.point, sources)

InverseSquareClasses == Classes \ ( InverseDistanceClasses \cup { "s3c" } )

\* the sources of the list that a channel of type ty counts
OfType(list, ty) == SelectSeq(list, LAMBDA s : s.type = ty)

\* whether i is k / max(d, d_min)^2 for the class, to the precision of the
\* intensity unit: i is the largest whole number of units with
\* i * max(d, d_min)^2 <= k
IsInverseSquare(cls, i, distsq) ==
    LET k == InvSquareK(cls) * PosScale * PosScale * IntScale
        m == Max(distsq, FloorSq(cls))
    IN  i * m <= k /\ k < (i + 1) * m

RECURSIVE SumOfSingles(_, _, _)
SumOfSingles(cls, p, list) ==
    IF list = << >> THEN 0
    ELSE FieldReading(cls, p, << Head(list) >>, "ANY")
            + SumOfSingles(cls, p, Tail(list))

\* C19: in the inverse-square variants the intensity of one source at
\* distance d is k / max(d, d_min)^2 with the variant's k and d_min (k =
\* 50000 and d_min = 1 give 5 at d = 100 in vehicle4.py), and the intensity
\* of a channel at a point is the sum of that over exactly the sources of
\* the channel's type; a variant without types sums over all sources.
InverseSquareLawPerType ==
    ( reading.measured /\ probe.cls \in InverseSquareClasses ) =>
       \A c \in DOMAIN Channels(probe.cls) :
          LET ty == Channels(probe.cls)[c]
              counted == IF ty = "ANY" THEN sources ELSE OfType(sources, ty)
          IN  /\ reading.intensity[c] =
                    SumOfSingles(probe.cls, probe.point, counted)
              /\ Len(counted) = 1 =>
                    IsInverseSquare(probe.cls, reading.intensity[c],
                                    DistSq(probe.point, counted[1]))
              /\ ( /\ probe.cls \in { "4a", "4b" }
                   /\ Len(counted) = 1
                   /\ DistSq(probe.point, counted[1])
                         = (100 * PosScale) * (100 * PosScale) ) =>
                    reading.intensity[c] = 5 * IntScale

\* vehicle4.py: a SOUND source and a HEAT source at distance 100; the SOUND
\* channel reads 5, the HEAT channel the other source, the LIGHT channel
\* nothing
TypedChannelsMeasured ==
    /\ reading.measured
    /\ probe.cls = "4a"
    /\ Len(sources) = 2
    /\ sources[1].type = "SOUND"
    /\ sources[2].type = "HEAT"
    /\ DistSq(probe.point, sources[1]) = (100 * PosScale) * (100 * PosScale)
    /\ reading.intensity[2] = 5 * IntScale
    /\ reading.intensity[4] > 0
    /\ reading.intensity[1] = 0

\* ---------------------------------------------------------------------------
\* The threshold response
\* ---------------------------------------------------------------------------

\* C20: with the parameters of every source type the threshold response is
\* 0 for an intensity below the threshold, exactly min_activation at the
\* threshold, and min_activation + slope * (intensity - threshold) above it
\* (to the nearest motor unit).
ThresholdResponseLaw ==
    ( reading.responded /\ probe.cls = "4b" ) =>
       LET over == probe.intensity - Threshold(probe.ty)
           gain == reading.response - MinActivation(probe.ty)
       IN  /\ over < 0 => reading.response = 0
           /\ over = 0 => reading.response = MinActivation(probe.ty)
           /\ over > 0 =>
                 2 * Abs(IntScale * gain - Slope(probe.ty) * over) <= IntScale

\* the response to an intensity equal to the HEAT threshold: the jump to
\* min_activation
RespondedAtThreshold ==
    /\ reading.responded
    /\ probe.cls = "4b"
    /\ probe.ty = "HEAT"
    /\ probe.intensity = Threshold("HEAT")
    /\ reading.response = MinActivation("HEAT")
    /\ reading.response > 0

\* ---------------------------------------------------------------------------
\* The bell-curve response
\* ---------------------------------------------------------------------------

BellClasses == { "4a", "gauss" }

BellResponded ==
    /\ reading.responded
    /\ probe.cls \in BellClasses

\* the response to the intensity as far on the other side of the optimum
Mirrored ==
    BellCurveResponse(2 * OptimalIntensity(probe.ty) - probe.intensity,
                      OptimalIntensity(probe.ty), CurveWidth(probe.ty))

\* C21 as stated: the bell-curve response is exactly 1.0 at the optimum,
\* the same at optimum + D and optimum - D, and in (0, 1] for every
\* intensity.
BellCurveInHalfOpenUnit ==
    BellResponded =>
       /\ probe.intensity = OptimalIntensity(probe.ty) =>
             reading.response = TrigScale
       /\ reading.response = Mirrored
       /\ reading.positive
       /\ reading.response <= TrigScale

\* C21: the bell-curve response is exactly 1.0 at the optimum, the same at
\* optimum + D and optimum - D, and in [0, 1] for every intensity; it is
\* above 0 within 38 widths of the optimum and exactly 0.0 from 40 widths
\* on, where math.exp underflows.
BellCurveInClosedUnit ==
    BellResponded =>
       /\ probe.intensity = OptimalIntensity(probe.ty) =>
             reading.response = TrigScale
       /\ reading.response = Mirrored
       /\ reading.response >= 0
       /\ reading.response <= TrigScale
       /\ Abs(probe.intensity - OptimalIntensity(probe.ty))
             < 38 * CurveWidth(probe.ty) => reading.positive
       /\ ~reading.positive => reading.response = 0

\* the Gaussian vehicle's response to the intensity of a source at the
\* sensor itself: exactly 0.0
BellCurveUnderflowed ==
    /\ BellResponded
    /\ probe.cls = "gauss"
    /\ probe.intensity = InvSquareK("gauss") * IntScale
    /\ ~reading.positive
    /\ reading.response = 0

\* ---------------------------------------------------------------------------
\* Type filters
\* ---------------------------------------------------------------------------

\* the list without its i-th source
Without(list, i) ==
    [j \in 1 .. Len(list) - 1 |-> IF j < i THEN list[j] ELSE list[j + 1]]

\* the channels whose reading at the probe changes when the i-th source is
\* taken away
AffectedBy(i) ==
    { c \in DOMAIN Channels(probe.cls) :
         reading.intensity[c] #
            FieldReading(probe.cls, probe.point, Without(sources, i),
                         Channels(probe.cls)[c]) }

FourChannelClasses == { "z3c", "303c", "4a", "4b" }

\* C22: a query with a type filter reads the sources of that type only, a
\* query without a filter reads all sources: no source changes the reading
\* of a channel tuned to another type, every source changes the reading of
\* a channel without a filter, and in the four-channel vehicles every
\* source changes the reading of exactly one channel, the one of its type.
FilterCountsOwnTypeOnly ==
    reading.measured =>
       /\ \A c \in DOMAIN Channels(probe.cls) :
             Channels(probe.cls)[c] # "ANY" =>
                reading.intensity[c] =
                   FieldReading(probe.cls, probe.point,
                                OfType(sources, Channels(probe.cls)[c]),
                                Channels(probe.cls)[c])
       /\ \A i \in DOMAIN sources :
             /\ AffectedBy(i) \subseteq ChannelsOf(sources[i])
             /\ Channels(probe.cls) = << "ANY" >> => AffectedBy(i) = { 1 }
             /\ probe.cls \in FourChannelClasses =>
                   /\ Cardinality(AffectedBy(i)) = 1
                   /\ AffectedBy(i) = ChannelsOf(sources[i])

\* vehicle303.py's VehicleThreeC measures a LIGHT and an OXYGEN source at
\* one place: two channels read them, the two others read nothing
TwoTypesMeasured ==
    /\ reading.measured
    /\ probe.cls = "303c"
    /\ Len(sources) = 2
    /\ sources[1].type = "LIGHT"
    /\ sources[2].type = "OXYGEN"
    /\ sources[1].x = sources[2].x
    /\ reading.intensity[2] > 0
    /\ reading.intensity[4] = reading.intensity[2]
    /\ reading.intensity[1] = 0
    /\ reading.intensity[3] = 0

\* ---------------------------------------------------------------------------
\* The variant keys of vehicle4.py
\* ---------------------------------------------------------------------------

\* C23 as stated: a variant key leaves the sources and the selected source
\* type unchanged and changes nothing but the active variant, so the vehicle
\* keeps its place and heading.
VariantKeyChangesOnlyVariant ==
    [][event' = "variant" =>
          /\ sources' = sources
          /\ current_source_type' = current_source_type
          /\ vehicles'[1].x = vehicles[1].x
          /\ vehicles'[1].y = vehicles[1].y
          /\ vehicles'[1].heading = vehicles[1].heading]_vars

\* C23: a variant key leaves the sources and the selected source type
\* unchanged; it makes the selected variant the active one and replaces the
\* vehicle by a new vehicle of that variant at the centre with heading 0.
VariantKeyKeepsSources ==
    [][event' = "variant" =>
          /\ sources' = sources
          /\ sources_right' = sources_right
          /\ current_source_type' = current_source_type
          /\ vehicles' = CreateVehicles(scene, current_vehicle_type')
          /\ vehicles'[1].cls = current_vehicle_type'
          /\ vehicles'[1].x = (800 \div 2) * PosScale
          /\ vehicles'[1].y = (600 \div 2) * PosScale
          /\ vehicles'[1].heading = 0]_vars

\* key B after a source type was selected, a source placed and a tick made
VariantKeyAfterPlacing ==
    /\ scene = "vehicle4"
    /\ event = "variant"
    /\ current_vehicle_type = "4b"
    /\ frames > 0
    /\ Len(sources) > 0
    /\ current_source_type # "LIGHT"
    /\ sources[1].type = current_source_type

\* ---------------------------------------------------------------------------
\* The inhibitory pairs 3a and 3b
\* ---------------------------------------------------------------------------

LoveClasses == { "3a", "z3a", "303a" }

ExplorerClasses == { "3b", "z3b", "303b" }

\* the left sensor of vehicle k read more than the right one in the step,
\* and the update gave the two motors different speeds
LeftReadsMore(k) ==
    /\ vehicles'[k].sense[1][1] > vehicles'[k].sense[1][2]
    /\ vehicles'[k].left_motor # vehicles'[k].right_motor

\* C24: when the left sensor reads strictly more than the right one and the
\* motors are not both at the floor, the uncrossed inhibitory vehicle 3a
\* turns its heading toward the side of its left sensor and the crossed
\* inhibitory vehicle 3b turns it away, in every file that has them.
LoveTurnsTowardExplorerAway ==
    [][event' = "tick" =>
        \A k \in DOMAIN vehicles :
            LeftReadsMore(k) =>
                /\ vehicles[k].cls \in LoveClasses => TurnsTowardLeft(k)
                /\ vehicles[k].cls \in ExplorerClasses => TurnsAwayFromLeft(k)]_vars

\* the same for the classes of vehicle3-3vehicles.py and vehicle303.py only
LoveTurnsTowardInLeftMinusRightFiles ==
    [][event' = "tick" =>
        \A k \in DOMAIN vehicles :
            LeftReadsMore(k) =>
                /\ vehicles[k].cls \in { "z3a", "303a" } => TurnsTowardLeft(k)
                /\ vehicles[k].cls \in { "z3b", "303b" } => TurnsAwayFromLeft(k)]_vars

\* ---------------------------------------------------------------------------
\* The two halves of the comparison
\* ---------------------------------------------------------------------------

\* C25: the Gaussian vehicle is always in the left region, 20 <= x <=
\* WIDTH // 2 - 30 and 180 <= y <= HEIGHT - 20, and the linear vehicle in the
\* right region, WIDTH // 2 + 30 <= x <= WIDTH - 20 and the same y; neither
\* is ever on the other side of the centre divider at WIDTH // 2.
ComparisonVehiclesStayInRegion ==
    \A k \in DOMAIN vehicles :
        LET v == vehicles[k]
            W == Width("comparison") * PosScale
            H == Height("comparison") * PosScale
        IN  /\ v.cls \in { "gauss", "linear" } =>
                 /\ 180 * PosScale <= v.y
                 /\ v.y <= H - 20 * PosScale
            /\ v.cls = "gauss" =>
                 /\ 20 * PosScale <= v.x
                 /\ v.x <= W \div 2 - 30 * PosScale
                 /\ v.x < W \div 2
            /\ v.cls = "linear" =>
                 /\ W \div 2 + 30 * PosScale <= v.x
                 /\ v.x <= W - 20 * PosScale
                 /\ v.x > W \div 2

\* the Gaussian vehicle drove to the right from the last column of its
\* region and was held there
HeldAtDivider ==
    /\ event = "tick"
    /\ vehicles[1].cls = "gauss"
    /\ vehicles[1].x = (Width("comparison") \div 2 - 30) * PosScale
    /\ vehicles[1].left_motor + vehicles[1].right_motor >= 2 * MotorScale
    /\ Abs(vehicles[1].heading) < HeadScale \div 2
    /\ Len(sources) > 0

\* ---------------------------------------------------------------------------
\* Types placed in the three zones
\* ---------------------------------------------------------------------------

\* C26: in the three-zone scene every source left of 2 * zone_width is
\* GENERIC and every source from 2 * zone_width on has one of the four types
\* TEMPERATURE, LIGHT, ORGANIC, OXYGEN, so each source has a type that a
\* channel of its zone's vehicle is tuned to.
ZoneSourcesHaveZoneTypes ==
    scene = "zones" =>
       \A i \in DOMAIN sources :
          LET s == sources[i]
              cls == vehicles[VehicleOfZone(GetZone(s.x))].cls
          IN  /\ s.x < 2 * ZoneWidth => s.type = "GENERIC"
              /\ s.x >= 2 * ZoneWidth =>
                    s.type \in { "TEMPERATURE", "LIGHT", "ORGANIC", "OXYGEN" }
              /\ \E c \in DOMAIN Channels(cls) : Channels(cls)[c] = s.type

\* key 2 and then a click on the first column of the right zone, after a
\* tick: the source is a LIGHT source
SelectedTypePlacedInRightZone ==
    /\ scene = "zones"
    /\ event = "click"
    /\ frames > 0
    /\ Len(sources) = 1
    /\ sources[1].x = 2 * ZoneWidth
    /\ sources[1].type = "LIGHT"
    /\ current_source_type = "LIGHT"

\* ---------------------------------------------------------------------------
\* Rest
\* ---------------------------------------------------------------------------

\* the last update of vehicle k read a field and computed both motors as 0
AtRest(k) ==
    /\ vehicles[k].left_motor = 0
    /\ vehicles[k].right_motor = 0
    /\ vehicles[k].sense[1][1] > 0
    /\ vehicles[k].sense[1][2] > 0

\* C27: for VehicleThreeA and VehicleThreeB of vehicle303.py rest is
\* absorbing: once an update has computed both motors as 0, no later update
\* and no later click changes the position or the heading, and the vehicle
\* is at rest after each of them; only K_r ends the rest.
RestIsAbsorbing ==
    [][\A k \in DOMAIN vehicles :
          (vehicles[k].cls \in { "303a", "303b" } /\ AtRest(k)
              /\ event' # "reset") =>
             /\ vehicles'[k].x = vehicles[k].x
             /\ vehicles'[k].y = vehicles[k].y
             /\ vehicles'[k].heading = vehicles[k].heading
             /\ AtRest(k)']_vars

\* VehicleThreeA came to rest in the first frame, a second source was
\* placed, and it is at rest after the second frame, reading both sources;
\* VehicleThreeB, which moves, has made its first update with the first
\* source alone
RestedThroughClick ==
    /\ scene = "vehicle303"
    /\ frames = 2
    /\ pc = "get"
    /\ Len(sources) = 2
    /\ sources[1].x = 230
    /\ sources[2].x = 650
    /\ vehicles[1].sense # Sense(vehicles[1], << sources[1] >>)
    /\ vehicles[2] = Update(Update(CreateVehicles(scene, "none")[2],
                                   << sources[1] >>), sources)
    /\ vehicles[2] # Update(Update(CreateVehicles(scene, "none")[2],
                                   sources), sources)
    /\ AtRest(1)
    /\ ~AtRest(2)

\* ---------------------------------------------------------------------------
\* The speed limits of vehicle3second.py
\* ---------------------------------------------------------------------------

\* C28: after every update of vehicle3second.py's VehicleThreeC both motors
\* are in [min_speed, max_speed] = [0.05, 6.0], so the forward speed, their
\* mean, is at least 0.05, and each sensor's aggregated strength for each
\* type is in [0, 1].
SecondMotorsWithinSpeedLimits ==
    \A k \in DOMAIN vehicles :
        (vehicles[k].cls = "s3c" /\ event = "tick") =>
            /\ 50 <= vehicles[k].left_motor
            /\ vehicles[k].left_motor <= 6000
            /\ 50 <= vehicles[k].right_motor
            /\ vehicles[k].right_motor <= 6000
            /\ vehicles[k].left_motor + vehicles[k].right_motor >= 2 * 50
            /\ \A c \in DOMAIN vehicles[k].sense :
                  \A i \in 1 .. 2 :
                     /\ 0 <= vehicles[k].sense[c][i]
                     /\ vehicles[k].sense[c][i] <= TrigScale

\* a temp source next to the right sensor and a light source near the left
\* one excite the right motor beyond the ceiling: it is held at 6.0, with
\* no strength at its cap
CeilingReached ==
    /\ event = "tick"
    /\ vehicles[1].cls = "s3c"
    /\ Len(sources) = 2
    /\ sources[1].type = "temp"
    /\ sources[2].type = "light"
    /\ vehicles[1].right_motor = 6000
    /\ vehicles[1].left_motor < 6000
    /\ \A c \in DOMAIN vehicles[1].sense :
          \A i \in 1 .. 2 : vehicles[1].sense[c][i] < TrigScale

\* ---------------------------------------------------------------------------
\* Vehicle 2 with config 'c'
\* ---------------------------------------------------------------------------

\* C29: a VehicleTwo with config 'c' has equal left and right motors after
\* every update, and no step changes its heading: it keeps the heading it
\* was constructed with through every tick and every added light.
AveragedVehicleKeepsHeading ==
    [][\A k \in DOMAIN vehicles :
          vehicles[k].cls = "2c" =>
             /\ vehicles'[k].left_motor = vehicles'[k].right_motor
             /\ vehicles'[k].heading = vehicles[k].heading
             /\ scene = "samplevehicle2" => vehicles'[k].heading = HeadingPi]_vars

\* samplevehicle2.py after a click and two ticks: the 'c' vehicle's two
\* sensors read the three lights differently, its motors are equal and
\* running, it has moved, and its heading is pi
AveragedVehicleDroveStraight ==
    /\ scene = "samplevehicle2"
    /\ frames = 2
    /\ event = "tick"
    /\ Len(sources) = 3
    /\ vehicles[3].cls = "2c"
    /\ vehicles[3].sense[1][1] # vehicles[3].sense[1][2]
    /\ vehicles[3].left_motor = vehicles[3].right_motor
    /\ vehicles[3].left_motor > 0
    /\ vehicles[3].x < (800 \div 2 - 200) * PosScale
    /\ vehicles[3].heading = HeadingPi

-----------------------------------------------------------------------------
(* A comparison vehicle that is updated until its trail is full and        *)
(* beyond.                                                                 *)

\* the number of updates: two more than max_trail_length
MaxTrailFrames == 202

InitTrail ==
    /\ \E cls \in { "gauss", "linear" } :
        /\ scene = SceneOf(cls)
        /\ sources \in UnitSourceLists(cls)
        /\ \E heading \in { 0, HeadingHalf } :
              vehicles = << NewVehicle(cls, Origin(cls)[1], Origin(cls)[2],
                                      heading) >>
    /\ sources_right = << >>
    /\ current_source_type = InitialSourceType(scene)
    /\ current_vehicle_type = InitialVehicleType(scene)
    /\ frames = 0
    /\ event = "init"
    /\ FrameStart
    /\ NoProbe

\* vehicle.update(sources), frame after frame
UpdateOn ==
    /\ frames < MaxTrailFrames
    /\ vehicles' = << Update(vehicles[1], sources) >>
    /\ frames' = frames + 1
    /\ event' = "tick"
    /\ UNCHANGED << frame_vars, probe_vars >>
    /\ UNCHANGED << scene, sources, sources_right, current_source_type,
                    current_vehicle_type >>

NextTrail == UpdateOn

SpecTrail == InitTrail /\ [][NextTrail]_vars

\* ---------------------------------------------------------------------------
\* The trail
\* ---------------------------------------------------------------------------

\* the last n elements of a sequence, or all of it if it is shorter
LastOf(seq, n) ==
    LET m == Min(Len(seq), n)
    IN  [i \in 1 .. m |-> seq[Len(seq) - m + i]]

\* C30: the trail of a comparison vehicle is a bounded queue: after every
\* update it is no longer than max_trail_length, it ends with the vehicle's
\* position, and it is the earlier trail with that position added at the
\* end, cut to its most recent max_trail_length elements in their order.
TrailIsBoundedFifo ==
    [][event' = "tick" =>
        \A k \in DOMAIN vehicles :
            vehicles[k].cls \in { "gauss", "linear" } =>
               LET pos == << vehicles'[k].x, vehicles'[k].y >>
                   new == vehicles'[k].trail
               IN  /\ Len(new) <= MaxTrailLength
                   /\ Len(new) >= 1
                   /\ new[Len(new)] = pos
                   /\ new = LastOf(Append(vehicles[k].trail, pos),
                                   MaxTrailLength)]_vars

\* the Gaussian vehicle after two updates more than its trail holds: the
\* trail is full, it no longer starts with the position of the first
\* update, and it ends with the positions of the last two
OldestDropped ==
    /\ event = "tick"
    /\ frames = MaxTrailLength + 2
    /\ vehicles[1].cls = "gauss"
    /\ Len(sources) > 0
    /\ Len(vehicles[1].trail) = MaxTrailLength
    /\ vehicles[1].trail[MaxTrailLength] = << vehicles[1].x, vehicles[1].y >>
    /\ vehicles[1].trail[MaxTrailLength - 1] # vehicles[1].trail[MaxTrailLength]
    /\ LET first == Update(NewVehicle("gauss", Origin("gauss")[1],
                                      Origin("gauss")[2], 0), sources)
       IN  \A i \in 1 .. 2 : vehicles[1].trail[i] # << first.x, first.y >>

============================================================================
